---- MODULE Spec2Model ----
(***************************************************************************)
(* Model of the retrieval-and-caching pipeline of the Bhutan legal RAG     *)
(* prototypes: PersistentBhutanRAG (persistent_bhutan_rag.py).             *)
(***************************************************************************)
EXTENDS Integers, Sequences, FiniteSets, TLC

(***************************************************************************)
(* Bounds of the model.                                                    *)
(***************************************************************************)
MaxTextLen == 7
MaxChunkSize == 3
MaxOverlap == 4

(***************************************************************************)
(* Text: a text is a sequence of characters; " " is the whitespace.        *)
(***************************************************************************)
Alphabet == {"a", "b", " "}

\* The whitespace characters that occur in the modelled texts.
IsSpace(c) == c \in {" ", "\n"}

TextsUpTo(n) == UNION {[1..k -> Alphabet] : k \in 0..n}

\* The index of the last character of the word that starts at index i.
RECURSIVE WordEnd(_, _)
WordEnd(s, i) == IF i < Len(s) /\ ~IsSpace(s[i + 1]) THEN WordEnd(s, i + 1) ELSE i

\* The words of s that start at an index of lo..hi (computed by halving).
RECURSIVE WordsFrom(_, _, _)
WordsFrom(s, lo, hi) ==
    IF lo > hi THEN <<>>
    ELSE IF lo = hi
    THEN (IF ~IsSpace(s[lo]) /\ (lo = 1 \/ IsSpace(s[lo - 1]))
          THEN <<SubSeq(s, lo, WordEnd(s, lo))>> ELSE <<>>)
    ELSE WordsFrom(s, lo, (lo + hi) \div 2) \o WordsFrom(s, ((lo + hi) \div 2) + 1, hi)

\* str.split(): the maximal runs of non-whitespace characters, in order.
split(s) == WordsFrom(s, 1, Len(s))

\* " ".join(words)
RECURSIVE JoinRange(_, _, _)
JoinRange(ws, lo, hi) ==
    IF lo = hi THEN ws[lo]
    ELSE JoinRange(ws, lo, (lo + hi) \div 2) \o <<" ">>
         \o JoinRange(ws, ((lo + hi) \div 2) + 1, hi)

join(ws) == IF ws = <<>> THEN <<>> ELSE JoinRange(ws, 1, Len(ws))

\* str.strip(): drop leading and trailing whitespace.
RECURSIVE lstrip(_)
lstrip(s) == IF s # <<>> /\ IsSpace(Head(s)) THEN lstrip(Tail(s)) ELSE s

RECURSIVE rstrip(_)
rstrip(s) ==
    IF s # <<>> /\ IsSpace(s[Len(s)]) THEN rstrip(SubSeq(s, 1, Len(s) - 1)) ELSE s

strip(s) == rstrip(lstrip(s))

\* words[i:j] of Python, on a 0-based start i and end j, clipped to the list.
Slice(ws, i, j) ==
    LET lo == IF i < 0 THEN 0 ELSE i
        hi == IF j > Len(ws) THEN Len(ws) ELSE j
    IN  IF hi <= lo THEN <<>> ELSE SubSeq(ws, lo + 1, hi)

(***************************************************************************)
(* chunk_text: the loop `for i in range(0, len(words), chunk_size-overlap)`*)
(* appends words[i:i+chunk_size] joined by " " and breaks once the window  *)
(* reaches the end of the words.                                           *)
(***************************************************************************)
\* Variant of the loop without the early `break`.
RECURSIVE ChunkLoopNoBreak(_, _, _, _, _)
ChunkLoopNoBreak(words, i, size, step, acc) ==
    IF i >= Len(words) THEN acc
    ELSE LET chunk == join(Slice(words, i, i + size))
             acc2 == IF strip(chunk) # <<>> THEN Append(acc, chunk) ELSE acc
         IN  ChunkLoopNoBreak(words, i + step, size, step, acc2)

RECURSIVE ChunkLoop(_, _, _, _, _)
ChunkLoop(words, i, size, step, acc) ==
    IF i >= Len(words) THEN acc
    ELSE LET chunk == join(Slice(words, i, i + size))
             acc2 == IF strip(chunk) # <<>> THEN Append(acc, chunk) ELSE acc
         IN  IF i + size >= Len(words) THEN acc2
             ELSE ChunkLoop(words, i + step, size, step, acc2)

\* Variant of chunk_text that advances by chunk_size, ignoring the overlap.
chunk_text_no_overlap(t, size, ov) ==
    [kind |-> "returned", chunks |-> ChunkLoop(split(t), 0, size, size, <<>>)]

\* range(0, n, 0) raises ValueError; range(0, n, step) with step < 0 is empty.
chunk_text(t, size, ov) ==
    LET words == split(t)
        step == size - ov
    IN  IF step = 0 THEN [kind |-> "ValueError", chunks |-> <<>>]
        ELSE IF step < 0 THEN [kind |-> "returned", chunks |-> <<>>]
        ELSE [kind |-> "returned", chunks |-> ChunkLoop(words, 0, size, step, <<>>)]

(***************************************************************************)
(* The document directory.  A document has a name, a byte size and a       *)
(* modification time; Absent marks a name with no file.                    *)
(***************************************************************************)
DocNames == {"Constitution_2008", "Penal_Code_2004"}

\* The characters of a document name (the stem of the file name).
Chars(n) ==
    CASE n = "Constitution_2008" ->
           <<"C","o","n","s","t","i","t","u","t","i","o","n","_","2","0","0","8">>
      [] n = "Penal_Code_2004" ->
           <<"P","e","n","a","l","_","C","o","d","e","_","2","0","0","4">>
      [] n = "Anti_Corruption_Act_2011" ->
           <<"A","n","t","i","_","C","o","r","r","u","p","t","i","o","n","_","A",
      "c","t","_","2","0","1","1">>
      [] n = "Civil_Code_Act" ->
           <<"C","i","v","i","l","_","C","o","d","e","_","A","c","t">>
      [] n = "Land_Act_2007" ->
           <<"L","a","n","d","_","A","c","t","_","2","0","0","7">>
      [] n = "Tax_Act_2022" ->
           <<"T","a","x","_","A","c","t","_","2","0","2","2">>
      [] n = "Marriage_Act_1980" ->
           <<"M","a","r","r","i","a","g","e","_","A","c","t","_","1","9","8","0">>

Sizes == {1, 11}

Mtimes == {1, 11}

Absent == [size |-> 0, mtime |-> 0]

DocStates == [size : Sizes, mtime : Mtimes]

Present(d) == {n \in DocNames : d[n] # Absent}

\* The orders in which a directory listing (glob) may return the names in S.
Listings(S) ==
    {o \in [1..Cardinality(S) -> S] : \A i, j \in 1..Cardinality(S) : i # j => o[i] # o[j]}

(***************************************************************************)
(* get_documents_hash: sorted(glob("*.pdf")), then the concatenation of    *)
(* "{name}:{st_size}:{st_mtime}:" for every file, then md5.                *)
(***************************************************************************)
CharCode(c) ==
    CASE c = "." -> 46
      [] c = "0" -> 48 [] c = "1" -> 49 [] c = "2" -> 50 [] c = "4" -> 52
      [] c = "8" -> 56
      [] c = "C" -> 67 [] c = "P" -> 80
      [] c = "_" -> 95
      [] c = "a" -> 97 [] c = "d" -> 100 [] c = "e" -> 101 [] c = "i" -> 105
      [] c = "l" -> 108 [] c = "n" -> 110 [] c = "o" -> 111 [] c = "s" -> 115
      [] c = "t" -> 116 [] c = "u" -> 117
      [] OTHER -> 63

\* Lexicographic order of two strings, as Python compares the paths.
RECURSIVE LexLess(_, _)
LexLess(a, b) ==
    IF b = <<>> THEN FALSE
    ELSE IF a = <<>> THEN TRUE
    ELSE IF CharCode(Head(a)) # CharCode(Head(b))
         THEN CharCode(Head(a)) < CharCode(Head(b))
         ELSE LexLess(Tail(a), Tail(b))

\* sorted(): insertion of each name of the listing into an ordered list.
RECURSIVE InsertSorted(_, _)
InsertSorted(x, l) ==
    IF l = <<>> THEN <<x>>
    ELSE IF LexLess(Chars(x), Chars(Head(l))) THEN <<x>> \o l
    ELSE <<Head(l)>> \o InsertSorted(x, Tail(l))

RECURSIVE sorted(_)
sorted(l) == IF l = <<>> THEN <<>> ELSE InsertSorted(Head(l), sorted(Tail(l)))

\* str() of a number below 100: its decimal digits.
Digit(n) ==
    CASE n = 0 -> "0" [] n = 1 -> "1" [] n = 2 -> "2" [] n = 3 -> "3"
      [] n = 4 -> "4" [] n = 5 -> "5" [] n = 6 -> "6" [] n = 7 -> "7"
      [] n = 8 -> "8" [] n = 9 -> "9"

Str(n) == IF n < 10 THEN <<Digit(n)>> ELSE <<Digit(n \div 10), Digit(n % 10)>>

\* f"{pdf_file.name}:{stat.st_size}:{stat.st_mtime}:"
HashEntry(n, d) ==
    Chars(n) \o <<".", "p", "d", "f">> \o <<":">> \o Str(d[n].size) \o <<":">>
      \o Str(d[n].mtime) \o <<":">>

RECURSIVE HashContent(_, _)
HashContent(files, d) ==
    IF files = <<>> THEN <<>>
    ELSE HashEntry(Head(files), d) \o HashContent(Tail(files), d)

\* md5 is taken as collision-free: the digest stands for the hashed string.
md5(str) == [md5 |-> str]

\* Variant of get_documents_hash that hashes the files in listing order.
get_documents_hash_unsorted(listing, d) == md5(HashContent(listing, d))

get_documents_hash(listing, d) == md5(HashContent(sorted(listing), d))

\* get_documents_hash, tabulated once over the directories and their listings.
HashMemo ==
    UNION {{[listing |-> l, docs |-> d, hash |-> get_documents_hash(l, d)] :
               l \in Listings(Present(d))} :
           d \in [DocNames -> DocStates \cup {Absent}]}

DocumentsHash(listing, d) ==
    (CHOOSE r \in HashMemo : r.listing = listing /\ r.docs = d).hash

(***************************************************************************)
(* Document contents.  The pages of a document are fixed by its name and   *)
(* its size: the small file has one page, the large one two.  Raw page     *)
(* texts carry the whitespace runs and the blank before punctuation that   *)
(* the extractor cleans up.  The state holds a text as the document and    *)
(* the pages it was extracted from; TextOf gives its characters.           *)
(***************************************************************************)
RECURSIVE Repeat(_, _)
Repeat(w, n) == IF n = 0 THEN <<>> ELSE w \o Repeat(w, n - 1)

Word_right == <<"r","i","g","h","t">>

Word_fine == <<"f","i","n","e">>

Word_law == <<"l","a","w">>

Word_tax == <<"t","a","x">>

\* 17 words of 5 letters: 101 characters once joined by single blanks.
LongPage(w) == Repeat(w \o <<" ", "\n">>, 17)

ShortPage(w) == w \o <<" ", " ", ".">>

MaxPages == 2

NumPages(d) == IF d.size = 1 THEN 1 ELSE MaxPages

PageContent(n, p) ==
    IF n = "Constitution_2008"
    THEN (IF p = 1 THEN LongPage(Word_right) ELSE ShortPage(Word_law))
    ELSE (IF p = 1 THEN LongPage(Word_fine) ELSE ShortPage(Word_tax))

\* PageContent, tabulated once; has_text is the test `if page_text:`.
PageMemo ==
    {[document |-> n, page |-> p, text |-> PageContent(n, p),
      has_text |-> PageContent(n, p) # <<>>] : n \in DocNames, p \in 1..MaxPages}

RawPageOf(n, p) == CHOOSE r \in PageMemo : r.document = n /\ r.page = p

RawPage(n, p) == RawPageOf(n, p).text

(***************************************************************************)
(* extract_text_from_pdfs: per page, re.sub(r'\s+', ' ', t) and then       *)
(* re.sub(r'(\w)\s+([.,:;])', r'\1\2', t); the page texts are joined with  *)
(* "\n"; a document is kept when its text is not blank.                    *)
(***************************************************************************)
IsPunct(c) == c \in {".", ",", ":", ";"}

IsWordChar(c) == ~IsSpace(c) /\ ~IsPunct(c)

\* re.sub(r'\s+', ' ', t): every whitespace run becomes one blank.
RECURSIVE CollapseRange(_, _, _)
CollapseRange(t, lo, hi) ==
    IF lo > hi THEN <<>>
    ELSE IF lo = hi
    THEN (IF ~IsSpace(t[lo]) THEN <<t[lo]>>
          ELSE IF lo > 1 /\ IsSpace(t[lo - 1]) THEN <<>> ELSE <<" ">>)
    ELSE CollapseRange(t, lo, (lo + hi) \div 2)
         \o CollapseRange(t, ((lo + hi) \div 2) + 1, hi)

CollapseSpaces(t) == CollapseRange(t, 1, Len(t))

\* The first index before (after) the whitespace run that holds index i.
RECURSIVE RunBefore(_, _)
RunBefore(t, i) == IF i >= 1 /\ IsSpace(t[i]) THEN RunBefore(t, i - 1) ELSE i

RECURSIVE RunAfter(_, _)
RunAfter(t, i) == IF i <= Len(t) /\ IsSpace(t[i]) THEN RunAfter(t, i + 1) ELSE i

\* re.sub(r'(\w)\s+([.,:;])', r'\1\2', t): a whitespace run between a word
\* character and a punctuation mark is removed.
RECURSIVE RepairRange(_, _, _)
RepairRange(t, lo, hi) ==
    IF lo > hi THEN <<>>
    ELSE IF lo = hi
    THEN (IF IsSpace(t[lo])
             /\ RunBefore(t, lo) >= 1 /\ IsWordChar(t[RunBefore(t, lo)])
             /\ RunAfter(t, lo) <= Len(t) /\ IsPunct(t[RunAfter(t, lo)])
          THEN <<>> ELSE <<t[lo]>>)
    ELSE RepairRange(t, lo, (lo + hi) \div 2)
         \o RepairRange(t, ((lo + hi) \div 2) + 1, hi)

RepairPunct(t) == RepairRange(t, 1, Len(t))

CleanPage(t) == RepairPunct(CollapseSpaces(t))

\* text += page_text + "\n" for the pages of `pages`, in page order.
RECURSIVE PagesText(_, _, _)
PagesText(n, p, pages) ==
    IF p > MaxPages THEN <<>>
    ELSE (IF p \in pages THEN CleanPage(RawPage(n, p)) \o <<"\n">> ELSE <<>>)
         \o PagesText(n, p + 1, pages)

\* PagesText, tabulated once over every document and every set of pages.
TextMemo ==
    {[document |-> n, pages |-> P, text |-> PagesText(n, 1, P),
      blank |-> strip(PagesText(n, 1, P)) = <<>>] :
        n \in DocNames, P \in SUBSET (1..MaxPages)}

TextRecord(n, pages) == CHOOSE r \in TextMemo : r.document = n /\ r.pages = pages

TextOf(n, pages) == TextRecord(n, pages).text

\* The pages of document n that yield text; failed is the set of pages whose
\* extraction raises, and 0 in failed is a failure to open or parse the file.
ExtractedPages(n, d, failed) ==
    IF 0 \in failed THEN {}
    ELSE {p \in 1..NumPages(d) : p \notin failed /\ RawPageOf(n, p).has_text}

\* Variant of the loop over the files in which a file that cannot be read
\* ends the extraction.
RECURSIVE ExtractLoopAborting(_, _, _)
ExtractLoopAborting(listing, d, fail) ==
    IF listing = <<>> \/ 0 \in fail[Head(listing)] THEN <<>>
    ELSE LET n == Head(listing)
             pages == ExtractedPages(n, d[n], fail[n])
         IN  (IF ~TextRecord(n, pages).blank
              THEN <<[document |-> n, pages |-> pages]>> ELSE <<>>)
             \o ExtractLoopAborting(Tail(listing), d, fail)

\* legal_texts: the texts in listing order, blank texts left out.
RECURSIVE ExtractLoop(_, _, _)
ExtractLoop(listing, d, fail) ==
    IF listing = <<>> THEN <<>>
    ELSE LET n == Head(listing)
             pages == ExtractedPages(n, d[n], fail[n])
         IN  (IF ~TextRecord(n, pages).blank
              THEN <<[document |-> n, pages |-> pages]>> ELSE <<>>)
             \o ExtractLoop(Tail(listing), d, fail)

(***************************************************************************)
(* get_document_type and create_chunks.                                    *)
(***************************************************************************)
Lower(c) ==
    CASE c = "A" -> "a" [] c = "C" -> "c" [] c = "L" -> "l" [] c = "M" -> "m"
      [] c = "P" -> "p" [] c = "T" -> "t" [] c = "W" -> "w" [] OTHER -> c

lower(str) == [i \in 1..Len(str) |-> Lower(str[i])]

\* `sub in str` of Python.
Contains(str, sub) ==
    \E i \in 0..(Len(str) - Len(sub)) : SubSeq(str, i + 1, i + Len(sub)) = sub

\* Variant of get_document_type that compares without lower().
get_document_type_case_sensitive(doc_name) ==
    LET doc_lower == Chars(doc_name)
    IN  IF Contains(doc_lower, <<"c","o","n","s","t","i","t","u","t","i","o","n">>)
        THEN "constitution"
        ELSE IF Contains(doc_lower, <<"p","e","n","a","l">>)
                \/ Contains(doc_lower, <<"c","r","i","m","i","n","a","l">>)
        THEN "criminal_law"
        ELSE IF Contains(doc_lower, <<"c","o","r","r","u","p","t","i","o","n">>)
        THEN "anti_corruption"
        ELSE IF Contains(doc_lower, <<"l","a","n","d">>) THEN "land_law"
        ELSE IF Contains(doc_lower, <<"t","a","x">>) THEN "tax_law"
        ELSE IF Contains(doc_lower, <<"e","n","v","i","r","o","n","m","e","n","t">>)
        THEN "environmental_law"
        ELSE "general_law"

get_document_type(doc_name) ==
    LET doc_lower == lower(Chars(doc_name))
    IN  IF Contains(doc_lower, <<"c","o","n","s","t","i","t","u","t","i","o","n">>)
        THEN "constitution"
        ELSE IF Contains(doc_lower, <<"p","e","n","a","l">>)
                \/ Contains(doc_lower, <<"c","r","i","m","i","n","a","l">>)
        THEN "criminal_law"
        ELSE IF Contains(doc_lower, <<"c","o","r","r","u","p","t","i","o","n">>)
        THEN "anti_corruption"
        ELSE IF Contains(doc_lower, <<"l","a","n","d">>) THEN "land_law"
        ELSE IF Contains(doc_lower, <<"t","a","x">>) THEN "tax_law"
        ELSE IF Contains(doc_lower, <<"e","n","v","i","r","o","n","m","e","n","t">>)
        THEN "environmental_law"
        ELSE "general_law"

DefaultChunkSize == 1200

DefaultOverlap == 200

MinChunkChars == 100

\* chunk_text(text, chunk_size=1200, overlap=200) of every text, tabulated.
ChunkMemo ==
    {[document |-> r.document, pages |-> r.pages,
      chunks |-> chunk_text(r.text, DefaultChunkSize, DefaultOverlap).chunks] :
        r \in TextMemo}

ChunksOfText(n, pages) ==
    (CHOOSE r \in ChunkMemo : r.document = n /\ r.pages = pages).chunks

\* The characters of a chunk; the state holds a chunk as the text it was cut
\* from and its position in that text's chunk list.
ChunkContent(c) == ChunksOfText(c.document, c.pages)[c.index]

\* The chunks of one text that are long enough, with their metadata.
RECURSIVE KeepChunks(_, _, _)
KeepChunks(t, i, total) ==
    IF i >= total THEN <<>>
    ELSE LET c == [document |-> t.document, pages |-> t.pages, index |-> i + 1]
         IN  (IF Len(strip(ChunkContent(c))) > MinChunkChars
              THEN <<[chunk |-> c,
                      meta |-> [document |-> t.document, chunk_id |-> i,
                                total_chunks |-> total,
                                doc_type |-> get_document_type(t.document)]]>>
              ELSE <<>>)
             \o KeepChunks(t, i + 1, total)

\* Variant of create_chunks that chunks only the first text of legal_texts.
create_chunks_first_text(legal_texts) ==
    IF legal_texts = <<>> THEN <<>>
    ELSE KeepChunks(Head(legal_texts), 0,
                    Len(ChunksOfText(Head(legal_texts).document, Head(legal_texts).pages)))

RECURSIVE create_chunks(_)
create_chunks(legal_texts) ==
    IF legal_texts = <<>> THEN <<>>
    ELSE KeepChunks(Head(legal_texts), 0,
                    Len(ChunksOfText(Head(legal_texts).document, Head(legal_texts).pages)))
         \o create_chunks(Tail(legal_texts))

(***************************************************************************)
(* State of PersistentBhutanRAG: the cache directory on disk, the fields   *)
(* of the object, and a record of what the last calls did.                 *)
(***************************************************************************)
VARIABLES
    docs,                 \* the document directory: name -> size, mtime
    envSteps,             \* number of steps the environment has taken so far
    initCalls,            \* number of initialize_system calls made so far
    texts_cache,          \* legal_texts.json
    chunks_cache,         \* chunks_data.pickle
    embeddings_cache,     \* embeddings.pickle exists
    metadata_cache,       \* system_metadata.json
    vector_db_dir,        \* the vector_db directory and its collection
    embedding_model,      \* self.embedding_model
    vector_db,            \* self.vector_db
    legal_texts,          \* self.legal_texts
    chunks_with_context,  \* self.chunks_with_context with metadata_with_context
    lastOp,               \* the operation that ran last
    hist,                 \* what happened since the last rebuild or clear
    lastInit,             \* what the last initialize_system call did
    searchResult          \* what the last search_documents call returned

diskVars ==
    <<texts_cache, chunks_cache, embeddings_cache, metadata_cache, vector_db_dir>>

memVars == <<embedding_model, vector_db, legal_texts, chunks_with_context>>

obsVars == <<lastOp, hist, lastInit, searchResult>>

cacheVars == <<docs, envSteps, initCalls, diskVars, memVars, obsVars>>

NoDocs == [n \in DocNames |-> Absent]

\* A file that does not exist; src is the directory a file was produced from.
NoTexts == [exists |-> FALSE, src |-> NoDocs, data |-> <<>>]

NoChunks == [exists |-> FALSE, src |-> NoDocs, data |-> <<>>]

NoMetadata ==
    [exists |-> FALSE, documents_hash |-> md5(<<>>), document_count |-> 0,
     chunks_count |-> 0]

NoVectorDir == [exists |-> FALSE, collection |-> FALSE, src |-> NoDocs, entries |-> <<>>]

NoVectorDb == [attached |-> FALSE, entries |-> <<>>]

NoInit ==
    [valid |-> FALSE, path |-> "none", ok |-> FALSE, failed_at |-> "none",
     extract_calls |-> 0, encode_calls |-> 0, hist_before |-> "none",
     pre |-> [metadata |-> FALSE, hash_match |-> FALSE, texts |-> FALSE,
              chunks |-> FALSE, embeddings |-> FALSE, vector |-> FALSE]]

NoSearch ==
    [raised |-> FALSE, docs |-> <<>>, metadatas |-> <<>>, query |-> <<>>,
     index |-> "absent", failed |-> FALSE]

\* __init__: the fields of a new object.
InitMemory ==
    /\ embedding_model = "None"
    /\ vector_db = NoVectorDb
    /\ legal_texts = <<>>
    /\ chunks_with_context = <<>>

\* Nothing has run yet: the cache directory is empty.
EmptyCache ==
    /\ envSteps = 0
    /\ initCalls = 0
    /\ texts_cache = NoTexts
    /\ chunks_cache = NoChunks
    /\ embeddings_cache = FALSE
    /\ metadata_cache = NoMetadata
    /\ vector_db_dir = NoVectorDir
    /\ InitMemory
    /\ lastOp = "none"
    /\ hist = "none"
    /\ lastInit = NoInit
    /\ searchResult = NoSearch

\* The documents are downloaded before the first run.
InitCache ==
    /\ docs \in {d \in [DocNames -> {Absent, [size |-> 1, mtime |-> 1]}] :
                   d["Constitution_2008"] # Absent}
    /\ EmptyCache

(***************************************************************************)
(* is_cache_valid                                                          *)
(***************************************************************************)
HashMatches(listing) ==
    DocumentsHash(listing, docs) = metadata_cache.documents_hash

is_cache_valid(listing) ==
    /\ metadata_cache.exists
    /\ HashMatches(listing)
    /\ texts_cache.exists
    /\ chunks_cache.exists
    /\ embeddings_cache

(***************************************************************************)
(* setup_embedding_model: on "mps" the model is loaded on the GPU and, if  *)
(* that raises, on the CPU; otherwise it is loaded on the CPU.             *)
(***************************************************************************)
setup_embedding_model(device, mpsOk, cpuOk) ==
    IF device = "mps" /\ mpsOk THEN [ok |-> TRUE, model |-> "mps"]
    ELSE IF cpuOk THEN [ok |-> TRUE, model |-> "cpu"]
    ELSE [ok |-> FALSE, model |-> "None"]

(***************************************************************************)
(* setup_persistent_vector_database                                        *)
(***************************************************************************)
BatchSize == 25

Min(a, b) == IF a < b THEN a ELSE b

\* Variant of the batch entries whose ids restart at 0 in every batch.
BatchEntriesLocalIds(chunks, i, batch_size) ==
    [j \in 1..Min(batch_size, Len(chunks) - i) |->
        [id |-> j - 1, document |-> chunks[i + j].chunk,
         metadata |-> chunks[i + j].meta]]

\* ids=[f"chunk_{i+j}" ...]: the entries of the batch that starts at offset i.
BatchEntriesOf(chunks, i, batch_size) ==
    [j \in 1..Min(batch_size, Len(chunks) - i) |->
        [id |-> i + j - 1, document |-> chunks[i + j].chunk,
         metadata |-> chunks[i + j].meta]]

BatchEntries(chunks, i) == BatchEntriesOf(chunks, i, BatchSize)

\* The batches added before the one whose encode raises (failBatch = 0: none
\* raises); calls is the number of encode calls made.
RECURSIVE AddBatchesOf(_, _, _, _, _)
AddBatchesOf(chunks, i, batch_size, failBatch, acc) ==
    IF i >= Len(chunks) THEN [ok |-> TRUE, entries |-> acc.entries, calls |-> acc.calls]
    ELSE IF failBatch = (i \div batch_size) + 1
    THEN [ok |-> FALSE, entries |-> acc.entries, calls |-> acc.calls + 1]
    ELSE AddBatchesOf(chunks, i + batch_size, batch_size, failBatch,
                      [entries |-> acc.entries \o BatchEntriesOf(chunks, i, batch_size),
                       calls |-> acc.calls + 1])

AddBatches(chunks, i, failBatch, acc) ==
    AddBatchesOf(chunks, i, BatchSize, failBatch, acc)

NumBatches(chunks) == (Len(chunks) + BatchSize - 1) \div BatchSize

\* db: "ok", or "client" when chromadb cannot be imported or opened, or
\* "encode" when the encode call of batch failBatch raises.
setup_persistent_vector_database(chunks, src, db, failBatch) ==
    IF db = "client"
    THEN [ok |-> FALSE, dir |-> vector_db_dir, handle |-> NoVectorDb, calls |-> 0]
    ELSE IF vector_db_dir.exists /\ vector_db_dir.collection
    THEN [ok |-> TRUE, dir |-> vector_db_dir,
          handle |-> [attached |-> TRUE, entries |-> vector_db_dir.entries],
          calls |-> 0]
    ELSE LET r == AddBatches(chunks, 0, IF db = "encode" THEN failBatch ELSE 0,
                             [entries |-> <<>>, calls |-> 0])
             dir == [exists |-> TRUE, collection |-> TRUE, src |-> src,
                     entries |-> r.entries]
         IN  [ok |-> r.ok, dir |-> dir,
              handle |-> IF r.ok THEN [attached |-> TRUE, entries |-> r.entries]
                         ELSE NoVectorDb,
              calls |-> r.calls]

PreState(listing) ==
    [metadata |-> metadata_cache.exists,
     hash_match |-> metadata_cache.exists /\ HashMatches(listing),
     texts |-> texts_cache.exists, chunks |-> chunks_cache.exists,
     embeddings |-> embeddings_cache,
     vector |-> vector_db_dir.exists]

(***************************************************************************)
(* initialize_system.  The inputs are what the environment decides during  *)
(* the call: the order of the directory listing, the pages that fail to    *)
(* extract, whether the cache files load, whether the embedding model      *)
(* loads, and how the vector store behaves.  The call is made on a new     *)
(* object (main, setup_rag_system_background): the disk is as the earlier  *)
(* runs left it, the fields are those of __init__.  Each step of the       *)
(* method reads what the steps before it have assigned.                    *)
(***************************************************************************)
\* load_legal_texts and load_chunks_data return nothing when they fail.
LoadedTexts(valid, textsOk) == IF valid /\ textsOk THEN texts_cache.data ELSE <<>>

LoadedChunks(valid, chunksOk) == IF valid /\ chunksOk THEN chunks_cache.data ELSE <<>>

\* `if legal_texts and chunks:` inside `if self.is_cache_valid():`
CachedBranch(valid, textsOk, chunksOk) ==
    valid /\ LoadedTexts(valid, textsOk) # <<>> /\ LoadedChunks(valid, chunksOk) # <<>>

\* save_system_metadata
SystemMetadata(listing, chunks) ==
    [exists |-> TRUE, documents_hash |-> DocumentsHash(listing, docs),
     document_count |-> Cardinality(Present(docs)), chunks_count |-> Len(chunks)]

\* Variant in which the metadata are saved before the vector database is
\* set up.
SavesMetadataEarly(cached, attached) == ~cached

\* save_system_metadata is reached on the rebuild path, after
\* setup_persistent_vector_database has returned True.
SavesMetadata(cached, attached) == ~cached /\ attached

\* The step at which the call returns False, "none" when it returns True.
FailedAt(cached, listing, texts, model, attached) ==
    IF ~cached /\ listing = <<>> THEN "no_documents"
    ELSE IF ~cached /\ texts = <<>> THEN "no_text"
    ELSE IF model = "None" THEN "embedding"
    ELSE IF ~attached THEN "vector_db"
    ELSE "none"

initialize_system(valid, listing, fail, textsOk, chunksOk, device, mpsOk, cpuOk, db, failBatch) ==
    LET cached == CachedBranch(valid, textsOk, chunksOk)
        extracts == ~cached /\ listing # <<>>
    IN  /\ legal_texts' = IF cached THEN texts_cache.data
                          ELSE IF extracts THEN ExtractLoop(listing, docs, fail)
                          ELSE LoadedTexts(valid, textsOk)
        /\ texts_cache' = IF extracts
                          THEN [exists |-> TRUE, src |-> docs, data |-> legal_texts']
                          ELSE texts_cache
        /\ chunks_with_context' =
               IF cached THEN chunks_cache.data
               ELSE IF extracts /\ legal_texts' # <<>> THEN create_chunks(legal_texts')
               ELSE LoadedChunks(valid, chunksOk)
        /\ chunks_cache' = IF extracts /\ legal_texts' # <<>>
                           THEN [exists |-> TRUE, src |-> docs,
                                 data |-> chunks_with_context']
                           ELSE chunks_cache
        /\ embedding_model' = IF cached \/ (extracts /\ legal_texts' # <<>>)
                              THEN setup_embedding_model(device, mpsOk, cpuOk).model
                              ELSE "None"
        /\ vector_db_dir' =
               IF embedding_model' # "None"
               THEN setup_persistent_vector_database(
                        chunks_with_context',
                        IF cached THEN chunks_cache.src ELSE docs, db, failBatch).dir
               ELSE vector_db_dir
        /\ vector_db' =
               IF embedding_model' # "None"
               THEN setup_persistent_vector_database(
                        chunks_with_context',
                        IF cached THEN chunks_cache.src ELSE docs, db, failBatch).handle
               ELSE NoVectorDb
        /\ metadata_cache' = IF SavesMetadata(cached, vector_db'.attached)
                             THEN SystemMetadata(listing, chunks_with_context')
                             ELSE metadata_cache
        /\ lastInit' =
               [valid |-> valid,
                path |-> IF cached THEN "cached" ELSE "rebuild",
                ok |-> vector_db'.attached,
                failed_at |-> FailedAt(cached, listing, legal_texts',
                                       embedding_model', vector_db'.attached),
                extract_calls |-> IF extracts THEN 1 ELSE 0,
                encode_calls |->
                    IF embedding_model' # "None"
                    THEN setup_persistent_vector_database(
                             chunks_with_context',
                             IF cached THEN chunks_cache.src ELSE docs, db, failBatch).calls
                    ELSE 0,
                hist_before |-> hist,
                pre |-> PreState(listing)]

\* The failures of one extraction: at most MaxFailures pages or files fail,
\* among the pages of the documents that are there.
MaxFailures == 1

FailPoints == {np \in DocNames \X (0..MaxPages) :
                  docs[np[1]] # Absent /\ np[2] <= NumPages(docs[np[1]])}

FailureChoices ==
    {[n \in DocNames |-> {p \in 0..MaxPages : <<n, p>> \in F}] :
        F \in {G \in SUBSET FailPoints : Cardinality(G) <= MaxFailures}}

NoFailures == [n \in DocNames |-> {}]

MaxFailBatch == 1

\* The device with the model loads that can happen on it.
ModelLoads ==
    {<<"mps", TRUE, TRUE>>, <<"mps", FALSE, TRUE>>, <<"mps", FALSE, FALSE>>,
     <<"cpu", TRUE, TRUE>>, <<"cpu", TRUE, FALSE>>}

MaxInitCalls == 2

\* initialize_system when the model loads behave as load tells.
InitializeSystemWith(load) ==
    /\ initCalls < MaxInitCalls
    /\ \E listing \in Listings(Present(docs)) :
       \E valid \in {is_cache_valid(listing)} :
       \E textsOk, chunksOk \in IF valid THEN BOOLEAN ELSE {TRUE} :
       \E fail \in IF CachedBranch(valid, textsOk, chunksOk) THEN {NoFailures}
                   ELSE FailureChoices :
       \E db \in IF ~load[3] /\ (load[1] = "cpu" \/ ~load[2]) THEN {"ok"}
                 ELSE IF vector_db_dir.exists /\ vector_db_dir.collection
                 THEN {"ok", "client"}
                 ELSE {"ok", "client", "encode"} :
       \E failBatch \in IF db = "encode" THEN 1..MaxFailBatch ELSE {1} :
           /\ initialize_system(valid, listing, fail, textsOk, chunksOk,
                                load[1], load[2], load[3], db, failBatch)
           /\ hist' = IF lastInit'.ok /\ lastInit'.path = "rebuild" THEN "built"
                      ELSE "none"
           /\ lastOp' = "initialize_system"
           /\ searchResult' = NoSearch
           /\ initCalls' = initCalls + 1
           /\ UNCHANGED <<docs, envSteps, embeddings_cache>>

InitializeSystem == \E load \in ModelLoads : InitializeSystemWith(load)

(***************************************************************************)
(* clear_cache                                                             *)
(***************************************************************************)
\* Variant of clear_cache that leaves the vector_db directory in place.
clear_cache_keep_vector_db ==
    [texts_cache |-> NoTexts, chunks_cache |-> NoChunks, embeddings_cache |-> FALSE,
     metadata_cache |-> NoMetadata, vector_db_dir |-> vector_db_dir]

clear_cache ==
    [texts_cache |-> NoTexts, chunks_cache |-> NoChunks, embeddings_cache |-> FALSE,
     metadata_cache |-> NoMetadata, vector_db_dir |-> NoVectorDir]

ClearCache ==
    /\ texts_cache' = clear_cache.texts_cache
    /\ chunks_cache' = clear_cache.chunks_cache
    /\ embeddings_cache' = clear_cache.embeddings_cache
    /\ metadata_cache' = clear_cache.metadata_cache
    /\ vector_db_dir' = clear_cache.vector_db_dir
    /\ hist' = "cleared"
    /\ lastOp' = "clear_cache"
    /\ lastInit' = NoInit
    /\ searchResult' = NoSearch
    /\ UNCHANGED <<docs, envSteps, initCalls, memVars>>

(***************************************************************************)
(* search_documents                                                        *)
(***************************************************************************)
TopK == 5

Queries == {Word_fine \o <<" ">> \o Word_tax}

\* The orders in which a query may rank n of the m entries of the index.
Rankings(n, m) ==
    {o \in [1..n -> 1..m] : \A i, j \in 1..n : i # j => o[i] # o[j]}

\* Variant of search_documents without the try/except around the query.
search_documents_no_except(query, k, encodeOk, queryOk, rank) ==
    IF ~vector_db.attached
    THEN [raised |-> FALSE, docs |-> <<>>, metadatas |-> <<>>]
    ELSE IF embedding_model = "None" \/ ~encodeOk \/ ~queryOk
    THEN [raised |-> TRUE, docs |-> <<>>, metadatas |-> <<>>]
    ELSE [raised |-> FALSE,
          docs |-> [i \in DOMAIN rank |-> vector_db.entries[rank[i]].document],
          metadatas |-> [i \in DOMAIN rank |-> vector_db.entries[rank[i]].metadata]]

search_documents(query, k, encodeOk, queryOk, rank) ==
    IF ~vector_db.attached
    THEN [raised |-> FALSE, docs |-> <<>>, metadatas |-> <<>>]
    ELSE IF embedding_model = "None" \/ ~encodeOk \/ ~queryOk
    THEN [raised |-> FALSE, docs |-> <<>>, metadatas |-> <<>>]
    ELSE [raised |-> FALSE,
          docs |-> [i \in DOMAIN rank |-> vector_db.entries[rank[i]].document],
          metadatas |-> [i \in DOMAIN rank |-> vector_db.entries[rank[i]].metadata]]

IndexState ==
    IF ~vector_db.attached THEN "absent"
    ELSE IF vector_db.entries = <<>> THEN "empty" ELSE "present"

SearchDocuments ==
    \E query \in Queries, encodeOk, queryOk \in BOOLEAN,
       rank \in Rankings(Min(TopK, Len(vector_db.entries)), Len(vector_db.entries)) :
        LET r == search_documents(query, TopK, encodeOk, queryOk, rank)
        IN  /\ searchResult' = [raised |-> r.raised, docs |-> r.docs,
                                metadatas |-> r.metadatas, query |-> query,
                                index |-> IndexState,
                                failed |-> ~encodeOk \/ ~queryOk]
            /\ lastOp' = "search_documents"
            /\ UNCHANGED <<docs, envSteps, initCalls, diskVars, memVars, hist, lastInit>>

(***************************************************************************)
(* The environment: the downloader and the user change the document        *)
(* directory, and files of the cache directory are removed or put there    *)
(* from outside.                                                           *)
(***************************************************************************)
MaxEnvSteps == 1

DocsChanged(d) ==
    /\ envSteps < MaxEnvSteps
    /\ docs' = d
    /\ envSteps' = envSteps + 1
    /\ hist' = IF hist = "built" THEN "none" ELSE hist
    /\ lastOp' = "environment"
    /\ lastInit' = NoInit
    /\ searchResult' = NoSearch
    /\ UNCHANGED <<initCalls, diskVars, memVars>>

AddDocument ==
    \E n \in DocNames, st \in DocStates :
        /\ docs[n] = Absent
        /\ DocsChanged([docs EXCEPT ![n] = st])

RemoveDocument ==
    \E n \in DocNames :
        /\ docs[n] # Absent
        /\ DocsChanged([docs EXCEPT ![n] = Absent])

ModifyDocument ==
    \E n \in DocNames, st \in DocStates :
        /\ docs[n] # Absent
        /\ docs[n] # st
        /\ DocsChanged([docs EXCEPT ![n] = st])

Artifacts == {"texts", "chunks", "embeddings", "metadata", "vector_db"}

DeleteArtifact ==
    \E a \in Artifacts :
        /\ envSteps < MaxEnvSteps
        /\ envSteps' = envSteps + 1
        /\ CASE a = "texts" -> texts_cache.exists
             [] a = "chunks" -> chunks_cache.exists
             [] a = "embeddings" -> embeddings_cache
             [] a = "metadata" -> metadata_cache.exists
             [] a = "vector_db" -> vector_db_dir.exists
        /\ texts_cache' = IF a = "texts" THEN NoTexts ELSE texts_cache
        /\ chunks_cache' = IF a = "chunks" THEN NoChunks ELSE chunks_cache
        /\ embeddings_cache' = IF a = "embeddings" THEN FALSE ELSE embeddings_cache
        /\ metadata_cache' = IF a = "metadata" THEN NoMetadata ELSE metadata_cache
        /\ vector_db_dir' = IF a = "vector_db" THEN NoVectorDir ELSE vector_db_dir
        /\ hist' = IF hist = "built" THEN "none" ELSE hist
        /\ lastOp' = "environment"
        /\ lastInit' = NoInit
        /\ searchResult' = NoSearch
        /\ UNCHANGED <<docs, initCalls, memVars>>

\* Nothing in the program writes embeddings.pickle; it exists only when it
\* is put into the cache directory from outside.
PutEmbeddingsFile ==
    /\ ~embeddings_cache
    /\ envSteps < MaxEnvSteps
    /\ envSteps' = envSteps + 1
    /\ embeddings_cache' = TRUE
    /\ lastOp' = "environment"
    /\ lastInit' = NoInit
    /\ searchResult' = NoSearch
    /\ UNCHANGED <<docs, initCalls, texts_cache, chunks_cache, metadata_cache,
                   vector_db_dir, memVars, hist>>

(***************************************************************************)
(* The chunker alone: inputs drawn from the bounded sets, one call.        *)
(***************************************************************************)
VARIABLES text, chunk_size, overlap, chunked

chunkVars == <<text, chunk_size, overlap, chunked>>

NotCalled == [kind |-> "none", chunks |-> <<>>]

InitChunk ==
    /\ text \in TextsUpTo(MaxTextLen)
    /\ chunk_size \in 1..MaxChunkSize
    /\ overlap \in 0..MaxOverlap
    /\ chunked = NotCalled

ChunkTextCall ==
    /\ chunked = NotCalled
    /\ chunked' = chunk_text(text, chunk_size, overlap)
    /\ UNCHANGED <<text, chunk_size, overlap>>

\* The chunker's variables while the cache is being exercised.
IdleChunk ==
    /\ text = <<>>
    /\ chunk_size = 1
    /\ overlap = 0
    /\ chunked = NotCalled

\* The cache's variables while the chunker is being exercised.
IdleCache ==
    /\ docs = NoDocs
    /\ EmptyCache

(***************************************************************************)
(* get_documents_hash alone: two directories, each with the order in which *)
(* glob lists it, and the fingerprints computed from them.                 *)
(***************************************************************************)
VARIABLES first_dir, second_dir, first_glob, second_glob, hashes

hashVars == <<first_dir, second_dir, first_glob, second_glob, hashes>>

Directories == [DocNames -> DocStates \cup {Absent}]

InitHash ==
    /\ first_dir \in Directories
    /\ second_dir \in Directories
    /\ first_glob \in Listings(Present(first_dir))
    /\ second_glob \in Listings(Present(second_dir))
    /\ hashes = <<>>

GetDocumentsHashCalls ==
    /\ hashes = <<>>
    /\ hashes' = <<get_documents_hash(first_glob, first_dir),
                   get_documents_hash(second_glob, second_dir)>>
    /\ UNCHANGED <<first_dir, second_dir, first_glob, second_glob>>

IdleHash ==
    /\ first_dir = NoDocs
    /\ second_dir = NoDocs
    /\ first_glob = <<>>
    /\ second_glob = <<>>
    /\ hashes = <<>>

(***************************************************************************)
(* ImprovedBhutanRAG.enhanced_text_search: the keyword search that answers *)
(* when the vector index is absent or its query fails.                     *)
(***************************************************************************)
Question_penalty ==
    <<"W","h","a","t"," ","i","s"," ","t","h","e"," ","p","e","n","a","l",
      "t","y"," ","f","o","r"," ","c","o","r","r","u","p","t","i","o","n",
      "?">>

Phrase_penalty ==
    <<"p","e","n","a","l","t","y"," ","f","o","r"," ","c","o","r","r","u",
      "p","t","i","o","n">>

Question_tax_tax ==
    <<"t","a","x"," ","t","a","x">>

Question_rights ==
    <<"r","i","g","h","t","s">>

Question_theft ==
    <<"t","h","e","f","t"," ","o","f"," ","l","a","n","d">>

KeywordQueries == {Question_penalty, Question_tax_tax, Question_rights, Question_theft}

Text_phrase ==
    <<"t","h","e"," ","p","e","n","a","l","t","y"," ","f","o","r"," ","c",
      "o","r","r","u","p","t","i","o","n"," ","i","s"," ","i","m","p","r",
      "i","s","o","n","m","e","n","t"," ","o","f"," ","f","i","v","e"," ",
      "y","e","a","r","s"," ","o","r"," ","m","o","r","e">>

Text_words ==
    <<"w","h","a","t"," ","i","s"," ","t","h","e"," ","p","e","n","a","l",
      "t","y"," ","f","o","r"," ","t","h","e","f","t"," ","o","f"," ","p",
      "r","o","p","e","r","t","y"," ","u","n","d","e","r"," ","t","h","i",
      "s"," ","c","o","d","e"," ","o","f"," ","l","a","w">>

Text_tax ==
    <<"e","v","e","r","y"," ","p","e","r","s","o","n"," ","s","h","a","l",
      "l"," ","p","a","y"," ","t","a","x"," ","i","n"," ","a","c","c","o",
      "r","d","a","n","c","e"," ","w","i","t","h"," ","t","h","e"," ","l",
      "a","w"," ","o","f"," ","t","h","e"," ","l","a","n","d">>

Text_equal ==
    <<"a","l","l"," ","p","e","r","s","o","n","s"," ","a","r","e"," ","e",
      "q","u","a","l"," ","b","e","f","o","r","e"," ","t","h","e"," ","l",
      "a","w"," ","a","n","d"," ","h","a","v","e"," ","f","u","n","d","a",
      "m","e","n","t","a","l"," ","r","i","g","h","t","s">>

Text_land ==
    <<"a"," ","t","h","r","a","m"," ","h","o","l","d","e","r"," ","m","a",
      "y"," ","l","e","a","s","e"," ","t","h","e"," ","r","e","g","i","s",
      "t","e","r","e","d"," ","p","l","o","t"," ","t","o"," ","a","n","o",
      "t","h","e","r"," ","p","e","r","s","o","n">>

\* The chunks that create_enhanced_chunks can have stored: each is a section
\* of more than 50 characters with the name of the document it came from.
SectionChars == 50

KeywordChunks ==
    {[text |-> Text_phrase, document |-> "Penal_Code_2004"],
     [text |-> Text_words, document |-> "Penal_Code_2004"],
     [text |-> Text_tax, document |-> "Constitution_2008"],
     [text |-> Text_equal, document |-> "Constitution_2008"],
     [text |-> Text_land, document |-> "Anti_Corruption_Act_2011"]}

\* sum(1 for word in query_words if word in chunk_lower): one for every
\* element of the list query_words that is a substring of the chunk.
RECURSIVE word_matches(_, _)
word_matches(query_words, chunk_lower) ==
    IF query_words = <<>> THEN 0
    ELSE (IF Contains(chunk_lower, Head(query_words)) THEN 1 ELSE 0)
         + word_matches(Tail(query_words), chunk_lower)

Word_constitution == <<"c","o","n","s","t","i","t","u","t","i","o","n">>

Word_corruption == <<"c","o","r","r","u","p","t","i","o","n">>

Word_rights == <<"r","i","g","h","t","s">>

PhraseBonus == 10

WordWeight == 2

TopicBoost == 5

RightsBoost == 3

\* The summands of the score of one chunk.
ScoreParts(query, chunk) ==
    LET chunk_lower == lower(chunk.text)
        query_lower == lower(query)
        query_words == split(query_lower)
        doc_name == lower(Chars(chunk.document))
    IN  [phrase |-> IF Contains(chunk_lower, query_lower) THEN PhraseBonus ELSE 0,
         words |-> word_matches(query_words, chunk_lower) * WordWeight,
         boost |-> IF Contains(query_lower, Word_constitution)
                      /\ Contains(doc_name, Word_constitution)
                   THEN TopicBoost
                   ELSE IF Contains(query_lower, Word_corruption)
                           /\ Contains(doc_name, Word_corruption)
                   THEN TopicBoost
                   ELSE IF Contains(query_lower, Word_rights)
                           /\ Contains(doc_name, Word_constitution)
                   THEN RightsBoost
                   ELSE 0]

Score(query, chunk) ==
    LET p == ScoreParts(query, chunk) IN p.phrase + p.words + p.boost

\* scored_chunks before the sort: the chunks of score > 0, in list order.
RECURSIVE ScoredFrom(_, _, _)
ScoredFrom(query, chunks, i) ==
    IF i > Len(chunks) THEN <<>>
    ELSE (IF Score(query, chunks[i]) > 0
          THEN <<[score |-> Score(query, chunks[i]), index |-> i]>> ELSE <<>>)
         \o ScoredFrom(query, chunks, i + 1)

\* list.sort(reverse=True, key=score): a stable sort, so that elements of
\* equal score keep the order they had.
\* Variant of the sort that is not stable: an element goes in front of the
\* elements of equal score.
RECURSIVE InsertByScoreUnstable(_, _)
InsertByScoreUnstable(sorted_part, x) ==
    IF sorted_part = <<>> THEN <<x>>
    ELSE IF Head(sorted_part).score > x.score
    THEN <<Head(sorted_part)>> \o InsertByScoreUnstable(Tail(sorted_part), x)
    ELSE <<x>> \o sorted_part

RECURSIVE InsertByScore(_, _)
InsertByScore(sorted_part, x) ==
    IF sorted_part = <<>> THEN <<x>>
    ELSE IF Head(sorted_part).score >= x.score
    THEN <<Head(sorted_part)>> \o InsertByScore(Tail(sorted_part), x)
    ELSE <<x>> \o sorted_part

RECURSIVE SortByScore(_, _)
SortByScore(scored, acc) ==
    IF scored = <<>> THEN acc
    ELSE SortByScore(Tail(scored), InsertByScore(acc, Head(scored)))

Take(s, k) == SubSeq(s, 1, Min(k, Len(s)))

(***************************************************************************)
(* BhutanLegalRAG.search_legal_documents: the vector query, and the simple *)
(* text search over chunks_fallback that setup_vector_database leaves when *)
(* it fails.                                                               *)
(***************************************************************************)
\* scored_chunks of the simple text search: the score is the number of
\* elements of query_words found in the chunk.
RECURSIVE SimpleScoredFrom(_, _, _)
SimpleScoredFrom(query, chunks, i) ==
    IF i > Len(chunks) THEN <<>>
    ELSE (IF word_matches(split(lower(query)), lower(chunks[i].text)) > 0
          THEN <<[score |-> word_matches(split(lower(query)), lower(chunks[i].text)),
                  index |-> i]>>
          ELSE <<>>)
         \o SimpleScoredFrom(query, chunks, i + 1)

NoResults ==
    [path |-> "none", scored_chunks |-> <<>>, top_results |-> <<>>,
     docs |-> <<>>, metadata |-> <<>>]

\* The answer of self.vector_db.query: the entries at the places rank.
VectorResults(chunks, rank) ==
    [path |-> "vector", scored_chunks |-> <<>>, top_results |-> <<>>,
     docs |-> [i \in DOMAIN rank |-> chunks[rank[i]].text],
     metadata |-> [i \in DOMAIN rank |-> [document |-> chunks[rank[i]].document]]]

KeywordResults(chunks, scored_chunks, k) ==
    [path |-> "keyword", scored_chunks |-> scored_chunks,
     top_results |-> Take(scored_chunks, k),
     docs |-> [i \in DOMAIN Take(scored_chunks, k) |->
                  chunks[scored_chunks[i].index].text],
     metadata |-> [i \in DOMAIN Take(scored_chunks, k) |->
                      [document |-> chunks[scored_chunks[i].index].document]]]

enhanced_text_search(chunks, query, k) ==
    KeywordResults(chunks, SortByScore(ScoredFrom(query, chunks, 1), <<>>), k)

\* index is "collection" when self.vector_db is a collection, "fallback"
\* when setup_vector_database failed and stored chunks_fallback, and "none"
\* before setup_vector_database has run.
search_legal_documents(index, chunks, query, k, queryOk, rank) ==
    IF index = "collection" /\ queryOk THEN VectorResults(chunks, rank)
    ELSE IF index = "fallback"
    THEN KeywordResults(chunks, SortByScore(SimpleScoredFrom(query, chunks, 1), <<>>), k)
    ELSE NoResults

(***************************************************************************)
(* The keyword searches alone: a stored chunk list, the state of the       *)
(* vector index, a question and a limit, one call.                         *)
(***************************************************************************)
VARIABLES kw_index, kw_chunks, kw_query, kw_k, kw_result

keywordVars == <<kw_index, kw_chunks, kw_query, kw_k, kw_result>>

MaxKeywordChunks == 3

MaxLimit == 2

\* k=5, the default limit of the search functions.
DefaultLimit == 5

NotSearched ==
    [op |-> "none", path |-> "none", scored_chunks |-> <<>>, top_results |-> <<>>,
     docs |-> <<>>, metadata |-> <<>>]

IndexStates == {"collection", "fallback", "none"}

InitKeyword ==
    /\ kw_index \in IndexStates
    /\ kw_chunks \in UNION {[1..n -> KeywordChunks] : n \in 0..MaxKeywordChunks}
    /\ kw_query \in KeywordQueries
    /\ kw_k \in (1..MaxLimit) \cup {DefaultLimit}
    /\ kw_result = NotSearched

Searched(op, r) ==
    [op |-> op, path |-> r.path, scored_chunks |-> r.scored_chunks,
     top_results |-> r.top_results, docs |-> r.docs, metadata |-> r.metadata]

\* A direct call of ImprovedBhutanRAG.enhanced_text_search; the chunks that
\* create_enhanced_chunks stores have more than 50 characters.
EnhancedTextSearch ==
    /\ kw_result.op = "none"
    /\ \A i \in DOMAIN kw_chunks : Len(strip(kw_chunks[i].text)) > SectionChars
    /\ kw_result' = Searched("enhanced_text_search",
                             enhanced_text_search(kw_chunks, kw_query, kw_k))
    /\ UNCHANGED <<kw_index, kw_chunks, kw_query, kw_k>>

SearchLegalDocuments ==
    /\ kw_result.op = "none"
    /\ \E queryOk \in BOOLEAN :
       \E rank \in Rankings(Min(kw_k, Len(kw_chunks)), Len(kw_chunks)) :
           kw_result' = Searched("search_legal_documents",
                                 search_legal_documents(kw_index, kw_chunks, kw_query,
                                                        kw_k, queryOk, rank))
    /\ UNCHANGED <<kw_index, kw_chunks, kw_query, kw_k>>

IdleKeyword ==
    /\ kw_index = "none"
    /\ kw_chunks = <<>>
    /\ kw_query = <<>>
    /\ kw_k = 0
    /\ kw_result = NotSearched

(***************************************************************************)
(* PersistentBhutanRAG.ask_legal_question with generate_response,          *)
(* generate_gemini_response and generate_fallback_response.                *)
(***************************************************************************)
NoInfoAnswer ==
    <<"N","o"," ","r","e","l","e","v","a","n","t"," ","l","e","g","a","l",
      " ","i","n","f","o","r","m","a","t","i","o","n"," ","f","o","u","n",
      "d",".">>

\* str.split('.'): the pieces between the full stops, from index start on.
RECURSIVE SplitFrom(_, _)
SplitFrom(s, start) ==
    IF \E p \in start..Len(s) : s[p] = "."
    THEN LET p == CHOOSE q \in start..Len(s) :
                      s[q] = "." /\ \A o \in start..(q - 1) : s[o] # "."
         IN  <<SubSeq(s, start, p - 1)>> \o SplitFrom(s, p + 1)
    ELSE <<SubSeq(s, start, Len(s))>>

SentenceChars == 20

\* [s.strip() for s in doc.split('.') if len(s.strip()) > 20]
RECURSIVE Sentences(_)
Sentences(pieces) ==
    IF pieces = <<>> THEN <<>>
    ELSE (IF Len(strip(Head(pieces))) > SentenceChars
          THEN <<strip(Head(pieces))>> ELSE <<>>)
         \o Sentences(Tail(pieces))

\* The sentences that contain one of the query words.
RECURSIVE RelevantOf(_, _)
RelevantOf(sentences, query_words) ==
    IF sentences = <<>> THEN <<>>
    ELSE (IF \E w \in DOMAIN query_words :
                 Contains(lower(Head(sentences)), query_words[w])
          THEN <<Head(sentences)>> ELSE <<>>)
         \o RelevantOf(Tail(sentences), query_words)

relevant_sentences(query, doc) ==
    RelevantOf(Sentences(SplitFrom(doc, 1)), split(lower(query)))

\* The texts a chunk can have.
ChunkTexts == UNION {{r.chunks[i] : i \in DOMAIN r.chunks} : r \in ChunkMemo}

\* The questions asked: one with no word of any chunk, one with such a word.
Questions == Queries \cup {Word_law \o <<" ">> \o Word_right}

\* relevant_sentences of every question and chunk text, tabulated.
RelevantMemo ==
    {[query |-> q, doc |-> t, relevant |-> relevant_sentences(q, t)] :
        q \in Questions, t \in ChunkTexts}

RelevantSentences(query, doc) ==
    (CHOOSE r \in RelevantMemo : r.query = query /\ r.doc = doc).relevant

\* '. '.join(...)
RECURSIVE JoinSentences(_)
JoinSentences(sentences) ==
    IF sentences = <<>> THEN <<>>
    ELSE IF Len(sentences) = 1 THEN Head(sentences)
    ELSE Head(sentences) \o <<".", " ">> \o JoinSentences(Tail(sentences))

\* meta['document'].replace('_', ' ')
SourceName(doc_name) ==
    [i \in 1..Len(Chars(doc_name)) |->
        IF Chars(doc_name)[i] = "_" THEN " " ELSE Chars(doc_name)[i]]

MaxSentences == 2

FallbackChars == 400

Text_AccordingTo == <<"A","c","c","o","r","d","i","n","g"," ","t","o"," ">>

Text_BasedOn == <<"B","a","s","e","d"," ","o","n"," ","B","h","u","t","a","n","'","s",
      " ","l","e","g","a","l"," ","d","o","c","u","m","e","n","t","s",":",
      " ">>

\* The loop over zip(context_docs, metadata), from place i on.
RECURSIVE generate_fallback_response(_, _, _, _)
generate_fallback_response(query, context_docs, metadata, i) ==
    IF i > Len(context_docs)
    THEN Text_BasedOn \o Take(context_docs[1], FallbackChars) \o <<".", ".", ".">>
    ELSE IF RelevantSentences(query, context_docs[i]) # <<>>
    THEN Text_AccordingTo \o SourceName(metadata[i].document) \o <<":", " ">>
         \o JoinSentences(Take(RelevantSentences(query, context_docs[i]), MaxSentences))
         \o <<".">>
    ELSE generate_fallback_response(query, context_docs, metadata, i + 1)

\* What a call of generate_content can do: raise, return no response, return
\* a response with no text (None or ""), or return a text.
GeminiOutcomes == {"raises", "no_response", "no_text", "blank", "text"}

GeminiText(outcome) ==
    IF outcome = "text" THEN <<" ">> \o Word_law \o <<".", "\n">>
    ELSE IF outcome = "blank" THEN <<" ">>
    ELSE <<>>

\* Variant of generate_gemini_response whose except clause answers with an
\* apology instead of falling through to the extractive answer.
generate_gemini_response_no_fallback(query, context_docs, metadata, outcome) ==
    IF outcome \notin {"raises", "no_response"} /\ GeminiText(outcome) # <<>>
    THEN [answer |-> strip(GeminiText(outcome)), by |-> "generative"]
    ELSE IF outcome = "raises"
    THEN [answer |-> NoInfoAnswer, by |-> "generative"]
    ELSE [answer |-> generate_fallback_response(query, context_docs, metadata, 1),
          by |-> "extractive"]

generate_gemini_response(query, context_docs, metadata, outcome) ==
    IF outcome \notin {"raises", "no_response"} /\ GeminiText(outcome) # <<>>
    THEN [answer |-> strip(GeminiText(outcome)), by |-> "generative"]
    ELSE [answer |-> generate_fallback_response(query, context_docs, metadata, 1),
          by |-> "extractive"]

\* calls is the number of generate_content calls made.
generate_response(query, context_docs, metadata, client, outcome) ==
    IF context_docs = <<>>
    THEN [answer |-> NoInfoAnswer, by |-> "none", calls |-> 0]
    ELSE IF client
    THEN [answer |-> generate_gemini_response(query, context_docs, metadata, outcome).answer,
          by |-> generate_gemini_response(query, context_docs, metadata, outcome).by,
          calls |-> 1]
    ELSE [answer |-> generate_fallback_response(query, context_docs, metadata, 1),
          by |-> "extractive", calls |-> 0]

\* list(set(...)): the different source names, in the order the set gives.
SourceNames(metadata) == {metadata[i].document : i \in DOMAIN metadata}

\* found is what search_documents returned, contents the texts of its
\* chunks; result is the dictionary returned, raised tells that an
\* exception left the function instead.
ask_legal_question(question, found, contents, client, outcome, order) ==
    IF found.raised
    THEN [raised |-> TRUE, result |-> [question |-> question], by |-> "none", calls |-> 0]
    ELSE IF found.docs = <<>>
    THEN [raised |-> FALSE,
          result |-> [question |-> question, answer |-> NoInfoAnswer,
                      sources |-> <<>>, ai_powered |-> FALSE],
          by |-> "none", calls |-> 0]
    ELSE [raised |-> FALSE,
          result |-> [question |-> question,
                      answer |-> generate_response(question, contents, found.metadatas,
                                                   client, outcome).answer,
                      sources |-> [i \in DOMAIN order |-> SourceName(order[i])],
                      ai_powered |-> client],
          by |-> generate_response(question, contents, found.metadatas, client, outcome).by,
          calls |-> generate_response(question, contents, found.metadatas, client, outcome).calls]

VARIABLES
    gemini_client,    \* self.gemini_client is set
    answered          \* what the last ask_legal_question call did

askVars == <<gemini_client, answered>>

NotAsked ==
    [called |-> FALSE, raised |-> FALSE, result |-> [question |-> <<>>],
     by |-> "none", calls |-> 0, index |-> "absent", failed |-> FALSE,
     outcome |-> "none", docs |-> <<>>, metadatas |-> <<>>]

\* setup_gemini: the client exists unless the import or the constructor fails.
InitAsk ==
    /\ gemini_client \in BOOLEAN
    /\ answered = NotAsked

AskLegalQuestion ==
    \E question \in Questions, encodeOk, queryOk \in BOOLEAN :
    \E rank \in Rankings(Min(TopK, Len(vector_db.entries)), Len(vector_db.entries)) :
    \E outcome \in GeminiOutcomes :
    \E order \in Listings(SourceNames(search_documents(question, TopK, encodeOk,
                                                       queryOk, rank).metadatas)) :
        LET found == search_documents(question, TopK, encodeOk, queryOk, rank)
            contents == [i \in DOMAIN found.docs |-> ChunkContent(found.docs[i])]
            r == ask_legal_question(question, found, contents, gemini_client,
                                    outcome, order)
        IN  /\ answered' = [called |-> TRUE, raised |-> r.raised, result |-> r.result,
                            by |-> r.by, calls |-> r.calls, index |-> IndexState,
                            failed |-> ~encodeOk \/ ~queryOk,
                            outcome |-> IF r.calls > 0 THEN outcome ELSE "none",
                            docs |-> contents, metadatas |-> found.metadatas]
            /\ lastOp' = "ask_legal_question"
            /\ UNCHANGED <<docs, envSteps, initCalls, diskVars, memVars, hist,
                           lastInit, searchResult, gemini_client>>

IdleAsk ==
    /\ gemini_client = FALSE
    /\ answered = NotAsked

(***************************************************************************)
(* get_document_type of PersistentBhutanRAG and of ImprovedBhutanRAG,      *)
(* called on document names in any order.                                  *)
(***************************************************************************)
Word_penal == <<"p","e","n","a","l">>

Word_criminal == <<"c","r","i","m","i","n","a","l">>

Word_civil == <<"c","i","v","i","l">>

Word_land == <<"l","a","n","d">>

Word_environment == <<"e","n","v","i","r","o","n","m","e","n","t">>

\* get_document_type of ImprovedBhutanRAG: it also knows "civil".
Improved_get_document_type(doc_name) ==
    LET doc_lower == lower(Chars(doc_name))
    IN  IF Contains(doc_lower, Word_constitution) THEN "constitution"
        ELSE IF Contains(doc_lower, Word_penal) \/ Contains(doc_lower, Word_criminal)
        THEN "criminal_law"
        ELSE IF Contains(doc_lower, Word_civil) THEN "civil_law"
        ELSE IF Contains(doc_lower, Word_corruption) THEN "anti_corruption"
        ELSE IF Contains(doc_lower, Word_land) THEN "land_law"
        ELSE IF Contains(doc_lower, Word_tax) THEN "tax_law"
        ELSE IF Contains(doc_lower, Word_environment) THEN "environmental_law"
        ELSE "general_law"

TypeNames ==
    DocNames \cup {"Anti_Corruption_Act_2011", "Civil_Code_Act", "Land_Act_2007",
                   "Tax_Act_2022", "Marriage_Act_1980"}

Classes == {"PersistentBhutanRAG", "ImprovedBhutanRAG"}

MaxTypeCalls == 3

VARIABLES type_calls    \* the calls made so far, each with the tag returned

typeVars == <<type_calls>>

InitType == type_calls = <<>>

GetDocumentType ==
    \E class \in Classes, doc_name \in TypeNames :
        /\ Len(type_calls) < MaxTypeCalls
        /\ type_calls' = Append(type_calls,
                                [class |-> class, doc_name |-> doc_name,
                                 tag |-> IF class = "PersistentBhutanRAG"
                                         THEN get_document_type(doc_name)
                                         ELSE Improved_get_document_type(doc_name)])

IdleType == type_calls = <<>>

(***************************************************************************)
(* Rebuilding: initialize_system and clear_cache over a document directory *)
(* that does not change, with a record of the first successful run.        *)
(***************************************************************************)
VARIABLES first_run    \* what the first successful initialize_system stored

rebuildVars == <<first_run>>

NoRun == [done |-> FALSE, chunks_count |-> 0, store |-> 0, texts |-> {}]

InitRebuild == first_run = NoRun

\* The texts extracted, whatever the order of the listing.
TextSet(texts) == {texts[i] : i \in DOMAIN texts}

RebuildRun ==
    /\ InitializeSystem
    /\ first_run' = IF ~first_run.done /\ lastInit'.ok
                    THEN [done |-> TRUE,
                          chunks_count |-> metadata_cache'.chunks_count,
                          store |-> Len(chunks_cache'.data),
                          texts |-> TextSet(legal_texts')]
                    ELSE first_run

IdleRebuild == first_run = NoRun

(***************************************************************************)
(* The Flask service (app.py).  Every request runs on a thread of its own: *)
(* POST /api/rag/setup runs setup_rag_system, which starts a thread that   *)
(* runs setup_rag_system_background, and POST /api/chat runs chat_with_rag *)
(* down to PersistentBhutanRAG.search_documents.  Nothing is locked: the   *)
(* threads interleave between any two of the steps below.                  *)
(***************************************************************************)
MaxThreads == 2

MaxRequests == 3

MaxSetups == 2

Threads == 1..MaxThreads

\* The runs of setup_rag_system_background; run r creates the object r.
SetupRuns == 1..MaxSetups

VARIABLES
    is_setup,         \* rag_setup_status["is_setup"]
    is_setting_up,    \* rag_setup_status["is_setting_up"]
    error,            \* rag_setup_status["error"]
    rag_system,       \* the global: 0 for None, or the object of a run
    instances,        \* what initialize_system has done on each object
    setup_pc,         \* where each run of setup_rag_system_background is
    outcome,          \* how each run ended
    pc,               \* where each request thread is
    called_on,        \* the object whose ask_legal_question a thread runs
    status,           \* the HTTP status of the last response of each thread
    served            \* number of requests answered so far

statusVars == <<is_setup, is_setting_up, error>>

runVars == <<rag_system, instances, setup_pc, outcome>>

requestVars == <<pc, called_on, status, served>>

serveVars == <<statusVars, runVars, requestVars>>

InitServe ==
    /\ is_setup = FALSE
    /\ is_setting_up = FALSE
    /\ error = "None"
    /\ rag_system = 0
    /\ instances = [r \in SetupRuns |-> "absent"]
    /\ setup_pc = [r \in SetupRuns |-> "unstarted"]
    /\ outcome = [r \in SetupRuns |-> "none"]
    /\ pc = [t \in Threads |-> "idle"]
    /\ called_on = [t \in Threads |-> 0]
    /\ status = [t \in Threads |-> 0]
    /\ served = 0

Respond(t, code) ==
    /\ pc' = [pc EXCEPT ![t] = "idle"]
    /\ status' = [status EXCEPT ![t] = code]
    /\ served' = served + 1
    /\ called_on' = [called_on EXCEPT ![t] = 0]

Goto(t, place) ==
    /\ pc' = [pc EXCEPT ![t] = place]
    /\ UNCHANGED <<status, served, called_on>>

Busy == {u \in Threads : pc[u] # "idle"}

Unstarted == {r \in SetupRuns : setup_pc[r] = "unstarted"}

\* A POST /api/rag/setup arrives and is given to a thread.
SetupRequest ==
    \E t \in Threads :
        /\ pc[t] = "idle"
        /\ served + Cardinality(Busy) < MaxRequests
        /\ Cardinality(Unstarted)
              > Cardinality({u \in Threads : pc[u] \in {"setup_rag_system", "thread_start"}})
        /\ Goto(t, "setup_rag_system")
        /\ UNCHANGED <<statusVars, runVars>>

\* setup_rag_system: the two tests of rag_setup_status.
SetupRagSystem ==
    \E t \in Threads :
        /\ pc[t] = "setup_rag_system"
        /\ IF is_setting_up \/ is_setup THEN Respond(t, 400)
           ELSE Goto(t, "thread_start")
        /\ UNCHANGED <<statusVars, runVars>>

\* setup_rag_system: thread.start() and the response.
SetupThreadStart ==
    \E t \in Threads :
        /\ pc[t] = "thread_start"
        /\ setup_pc' = [setup_pc EXCEPT
                           ![CHOOSE r \in Unstarted : \A q \in Unstarted : r <= q] = "begin"]
        /\ Respond(t, 200)
        /\ UNCHANGED <<statusVars, rag_system, instances, outcome>>

\* setup_rag_system_background: the first assignments of the thread.
SetupBegin ==
    \E r \in SetupRuns :
        /\ setup_pc[r] = "begin"
        /\ is_setting_up' = TRUE
        /\ error' = "None"
        /\ setup_pc' = [setup_pc EXCEPT ![r] = "create"]
        /\ UNCHANGED <<is_setup, rag_system, instances, outcome, requestVars>>

\* rag_system = PersistentBhutanRAG() and the test for documents.
SetupCreate ==
    \E r \in SetupRuns, documents \in BOOLEAN :
        /\ setup_pc[r] = "create"
        /\ rag_system' = r
        /\ instances' = [instances EXCEPT ![r] = "created"]
        /\ error' = IF documents THEN error ELSE "no_documents"
        /\ outcome' = [outcome EXCEPT ![r] = IF documents THEN "none" ELSE "no_documents"]
        /\ setup_pc' = [setup_pc EXCEPT ![r] = IF documents THEN "initialize" ELSE "finally"]
        /\ UNCHANGED <<is_setup, is_setting_up, requestVars>>

\* rag_system.initialize_system() returns True or False or raises; the
\* global is read again for the call.
SetupInitialize ==
    \E r \in SetupRuns, result \in {"success", "failed", "raised"} :
        /\ setup_pc[r] = "initialize"
        /\ instances' = [instances EXCEPT
                            ![rag_system] = IF result = "success" THEN "initialized"
                                            ELSE instances[rag_system]]
        /\ is_setup' = (is_setup \/ result = "success")
        /\ error' = IF result = "success" THEN error ELSE result
        /\ outcome' = [outcome EXCEPT ![r] = result]
        /\ setup_pc' = [setup_pc EXCEPT ![r] = "finally"]
        /\ UNCHANGED <<is_setting_up, rag_system, requestVars>>

\* The finally clause.
SetupFinish ==
    \E r \in SetupRuns :
        /\ setup_pc[r] = "finally"
        /\ is_setting_up' = FALSE
        /\ setup_pc' = [setup_pc EXCEPT ![r] = "done"]
        /\ UNCHANGED <<is_setup, error, rag_system, instances, outcome, requestVars>>

\* A POST /api/chat arrives and is given to a thread.
ChatRequest ==
    \E t \in Threads :
        /\ pc[t] = "idle"
        /\ served + Cardinality(Busy) < MaxRequests
        /\ Goto(t, "chat_with_rag")
        /\ UNCHANGED <<statusVars, runVars>>

\* chat_with_rag up to the call of rag_system.ask_legal_question.
ChatWithRag ==
    \E t \in Threads, question \in {"", "question"} :
        /\ pc[t] = "chat_with_rag"
        /\ IF ~is_setup THEN Respond(t, 400)
           ELSE IF rag_system = 0 THEN Respond(t, 500)
           ELSE IF question = "" THEN Respond(t, 400)
           ELSE /\ pc' = [pc EXCEPT ![t] = "search_documents"]
                /\ called_on' = [called_on EXCEPT ![t] = rag_system]
                /\ UNCHANGED <<status, served>>
        /\ UNCHANGED <<statusVars, runVars>>

\* search_documents: without an index it returns at once, with one it calls
\* self.embedding_model.encode([query]).
SearchStart ==
    \E t \in Threads :
        /\ pc[t] = "search_documents"
        /\ IF instances[called_on[t]] = "initialized" THEN Goto(t, "encode")
           ELSE Goto(t, "generate_response")
        /\ UNCHANGED <<statusVars, runVars>>

\* encode returns, or raises into the except clause of search_documents.
EncodeReturn ==
    \E t \in Threads, ok \in BOOLEAN :
        /\ pc[t] = "encode"
        /\ Goto(t, IF ok THEN "query" ELSE "generate_response")
        /\ UNCHANGED <<statusVars, runVars>>

\* self.vector_db.query returns or raises.
QueryReturn ==
    \E t \in Threads :
        /\ pc[t] = "query"
        /\ Goto(t, "generate_response")
        /\ UNCHANGED <<statusVars, runVars>>

\* The answer is built and chat_with_rag returns it; an exception in it
\* gives the status 500.
ChatReturn ==
    \E t \in Threads, code \in {200, 500} :
        /\ pc[t] = "generate_response"
        /\ Respond(t, code)
        /\ UNCHANGED <<statusVars, runVars>>

IdleServe ==
    /\ is_setup = FALSE
    /\ is_setting_up = FALSE
    /\ error = "None"
    /\ rag_system = 0
    /\ instances = [r \in SetupRuns |-> "absent"]
    /\ setup_pc = [r \in SetupRuns |-> "unstarted"]
    /\ outcome = [r \in SetupRuns |-> "none"]
    /\ pc = [t \in Threads |-> "idle"]
    /\ called_on = [t \in Threads |-> 0]
    /\ status = [t \in Threads |-> 0]
    /\ served = 0

(***************************************************************************)
(* setup_embedding_model inside initialize_system: the constructions of    *)
(* SentenceTransformer it attempts.                                        *)
(***************************************************************************)
\* The devices on which setup_embedding_model constructs the model, in
\* order; none when sentence_transformers cannot be imported.
EmbeddingAttempts(importOk, device, mpsOk) ==
    IF ~importOk THEN <<>>
    ELSE IF device = "mps" THEN (IF mpsOk THEN <<"mps">> ELSE <<"mps", "cpu">>)
    ELSE <<"cpu">>

VARIABLES embed    \* what the last setup_embedding_model call did

embedVars == <<embed>>

NotLoaded == [called |-> FALSE, device |-> "none", attempts |-> <<>>, ok |-> FALSE]

InitEmbed == embed = NotLoaded

\* initialize_system with a record of its setup_embedding_model call; the
\* import can fail only in a call that loads no model.
EmbedInitialize ==
    \E load \in ModelLoads :
    \E importOk \in IF setup_embedding_model(load[1], load[2], load[3]).ok
                    THEN {TRUE} ELSE BOOLEAN :
        /\ InitializeSystemWith(load)
        /\ embed' = IF lastInit'.failed_at \in {"no_documents", "no_text"}
                    THEN NotLoaded
                    ELSE [called |-> TRUE, device |-> load[1],
                          attempts |-> EmbeddingAttempts(importOk, load[1], load[2]),
                          ok |-> setup_embedding_model(load[1], load[2], load[3]).ok]

IdleEmbed == embed = NotLoaded

(***************************************************************************)
(* setup_persistent_vector_database on a directory without a collection:   *)
(* the ingestion loop, for any list of chunks and any batch size.          *)
(***************************************************************************)
MaxIngestChunks == 4

MaxBatchSize == 3

ChunkValues == {"a", "b"}

\* chunks and metadata are parallel lists: the metadata of a chunk tells its
\* place in the list.
ChunkLists ==
    UNION {[1..n -> ChunkValues] : n \in 0..MaxIngestChunks}

WithMetadata(cs) == [i \in 1..Len(cs) |-> [chunk |-> cs[i], meta |-> [place |-> i - 1]]]

BatchSizes == (1..MaxBatchSize) \cup {BatchSize}

VARIABLES ing_chunks, ing_batch_size, ing_collection

ingestVars == <<ing_chunks, ing_batch_size, ing_collection>>

NoCollection == [state |-> "none", ok |-> FALSE, entries |-> <<>>, calls |-> 0]

InitIngest ==
    /\ ing_chunks \in {WithMetadata(cs) : cs \in ChunkLists}
    /\ ing_batch_size \in BatchSizes
    /\ ing_collection = NoCollection

\* client.create_collection and the loop over the batches; the encode call
\* of batch failBatch raises (0: none does).
IngestChunks ==
    /\ ing_collection.state = "none"
    /\ \E failBatch \in 0..((Len(ing_chunks) + ing_batch_size - 1) \div ing_batch_size) :
        LET r == AddBatchesOf(ing_chunks, 0, ing_batch_size, failBatch,
                              [entries |-> <<>>, calls |-> 0])
        IN  ing_collection' = [state |-> "created", ok |-> r.ok,
                               entries |-> r.entries, calls |-> r.calls]
    /\ UNCHANGED <<ing_chunks, ing_batch_size>>

IdleIngest ==
    /\ ing_chunks = <<>>
    /\ ing_batch_size = BatchSize
    /\ ing_collection = NoCollection

(***************************************************************************)
(* ImprovedBhutanRAG: setup_vector_database, which skips a batch whose     *)
(* encode or add raises, and search_documents.                             *)
(***************************************************************************)
ImprovedBatchSize == 20

\* The places of the chunks that the loop adds to the collection: a batch
\* in failed raises and is skipped.
RECURSIVE AddedPlaces(_, _, _)
AddedPlaces(n, i, failed) ==
    IF i >= n THEN <<>>
    ELSE (IF ((i \div ImprovedBatchSize) + 1) \in failed THEN <<>>
          ELSE [j \in 1..Min(ImprovedBatchSize, n - i) |-> i + j])
         \o AddedPlaces(n, i + ImprovedBatchSize, failed)

\* self.vector_db = None in __init__ and when the client cannot be made.
NoImprovedDb == [present |-> FALSE, entries |-> <<>>]

setup_vector_database(chunks, clientOk, failed) ==
    IF clientOk THEN [present |-> TRUE, entries |-> AddedPlaces(Len(chunks), 0, failed)]
    ELSE NoImprovedDb

\* `if self.vector_db:` holds for every collection object, whatever it
\* contains; the query of a collection returns at most the entries it has.
Improved_search_documents(db, chunks, query, k, encodeOk, queryOk, rank) ==
    IF db.present /\ encodeOk /\ queryOk
    THEN VectorResults(chunks, [i \in DOMAIN rank |-> db.entries[rank[i]]])
    ELSE enhanced_text_search(chunks, query, k)

MaxImprovedChunks == 2

VARIABLES imp_chunks, imp_query, imp_setup, imp_vector_db, imp_result

improvedVars == <<imp_chunks, imp_query, imp_setup, imp_vector_db, imp_result>>

NoImprovedSearch == [op |-> "none", encode_called |-> FALSE, result |-> NoResults]

\* run_enhanced_system has stored the chunks of create_enhanced_chunks.
InitImproved ==
    /\ imp_chunks \in UNION {[1..n -> {c \in KeywordChunks :
                                          Len(strip(c.text)) > SectionChars}] :
                               n \in 0..MaxImprovedChunks}
    /\ imp_query \in KeywordQueries
    /\ imp_setup = FALSE
    /\ imp_vector_db = NoImprovedDb
    /\ imp_result = NoImprovedSearch

SetupVectorDatabase ==
    /\ ~imp_setup
    /\ \E clientOk \in BOOLEAN :
       \E failed \in SUBSET (1..((Len(imp_chunks) + ImprovedBatchSize - 1)
                                    \div ImprovedBatchSize)) :
           imp_vector_db' = setup_vector_database(imp_chunks, clientOk, failed)
    /\ imp_setup' = TRUE
    /\ imp_result' = NoImprovedSearch
    /\ UNCHANGED <<imp_chunks, imp_query>>

ImprovedSearchDocuments ==
    /\ \E encodeOk, queryOk \in BOOLEAN :
       \E rank \in Rankings(Min(DefaultLimit, Len(imp_vector_db.entries)),
                            Len(imp_vector_db.entries)) :
           imp_result' =
               [op |-> "search_documents",
                encode_called |-> imp_vector_db.present,
                result |-> Improved_search_documents(
                               imp_vector_db, imp_chunks, imp_query, DefaultLimit,
                               encodeOk, queryOk, rank)]
    /\ UNCHANGED <<imp_chunks, imp_query, imp_setup, imp_vector_db>>

IdleImproved ==
    /\ imp_chunks = <<>>
    /\ imp_query = <<>>
    /\ imp_setup = FALSE
    /\ imp_vector_db = NoImprovedDb
    /\ imp_result = NoImprovedSearch

(***************************************************************************)
(* extract_text_from_pdfs alone: a directory, the order of its listing and *)
(* the pages and files whose extraction raises.                            *)
(***************************************************************************)
MaxExtractFailures == 2

VARIABLES ext_docs, ext_call

extractVars == <<ext_docs, ext_call>>

NotExtracted ==
    [state |-> "none", listing |-> <<>>, fail |-> NoFailures, legal_texts |-> <<>>]

InitExtract ==
    /\ ext_docs \in [DocNames -> {Absent} \cup {[size |-> sz, mtime |-> 1] : sz \in Sizes}]
    /\ ext_call = NotExtracted

\* The failures of one extraction over the directory d.
ExtractFailures(d) ==
    {f \in [DocNames -> SUBSET (0..MaxPages)] :
        /\ \A n \in DocNames :
              /\ d[n] = Absent => f[n] = {}
              /\ \A p \in f[n] : p <= NumPages(d[n])
        /\ Cardinality({np \in DocNames \X (0..MaxPages) : np[2] \in f[np[1]]})
              <= MaxExtractFailures}

ExtractTextFromPdfs ==
    /\ ext_call.state = "none"
    /\ \E listing \in Listings(Present(ext_docs)) :
       \E fail \in ExtractFailures(ext_docs) :
           ext_call' = [state |-> "returned", listing |-> listing, fail |-> fail,
                        legal_texts |-> ExtractLoop(listing, ext_docs, fail)]
    /\ UNCHANGED ext_docs

IdleExtract ==
    /\ ext_docs = NoDocs
    /\ ext_call = NotExtracted

vars == <<cacheVars, chunkVars, hashVars, keywordVars, typeVars, askVars,
          rebuildVars, serveVars, embedVars, ingestVars, improvedVars,
          extractVars>>

(***************************************************************************)
(* Specifications.                                                         *)
(***************************************************************************)
Init ==
    /\ InitCache
    /\ IdleChunk
    /\ IdleHash
    /\ IdleKeyword
    /\ IdleType
    /\ IdleAsk
    /\ IdleRebuild
    /\ IdleServe
    /\ IdleEmbed
    /\ IdleIngest
    /\ IdleImproved
    /\ IdleExtract

Next ==
    \/ /\ InitializeSystem
       /\ UNCHANGED <<chunkVars, hashVars, keywordVars, typeVars, askVars,
                    rebuildVars, serveVars, embedVars, ingestVars,
                    improvedVars, extractVars>>
    \/ /\ ClearCache
       /\ UNCHANGED <<chunkVars, hashVars, keywordVars, typeVars, askVars,
                    rebuildVars, serveVars, embedVars, ingestVars,
                    improvedVars, extractVars>>
    \/ /\ SearchDocuments
       /\ UNCHANGED <<chunkVars, hashVars, keywordVars, typeVars, askVars,
                    rebuildVars, serveVars, embedVars, ingestVars,
                    improvedVars, extractVars>>
    \/ /\ AddDocument
       /\ UNCHANGED <<chunkVars, hashVars, keywordVars, typeVars, askVars,
                    rebuildVars, serveVars, embedVars, ingestVars,
                    improvedVars, extractVars>>
    \/ /\ RemoveDocument
       /\ UNCHANGED <<chunkVars, hashVars, keywordVars, typeVars, askVars,
                    rebuildVars, serveVars, embedVars, ingestVars,
                    improvedVars, extractVars>>
    \/ /\ ModifyDocument
       /\ UNCHANGED <<chunkVars, hashVars, keywordVars, typeVars, askVars,
                    rebuildVars, serveVars, embedVars, ingestVars,
                    improvedVars, extractVars>>
    \/ /\ DeleteArtifact
       /\ UNCHANGED <<chunkVars, hashVars, keywordVars, typeVars, askVars,
                    rebuildVars, serveVars, embedVars, ingestVars,
                    improvedVars, extractVars>>
    \/ /\ PutEmbeddingsFile
       /\ UNCHANGED <<chunkVars, hashVars, keywordVars, typeVars, askVars,
                    rebuildVars, serveVars, embedVars, ingestVars,
                    improvedVars, extractVars>>

Spec == Init /\ [][Next]_vars

InitChunker ==
    /\ InitChunk
    /\ IdleCache
    /\ IdleHash
    /\ IdleKeyword
    /\ IdleType
    /\ IdleAsk
    /\ IdleRebuild
    /\ IdleServe
    /\ IdleEmbed
    /\ IdleIngest
    /\ IdleImproved
    /\ IdleExtract

NextChunker ==
    /\ ChunkTextCall
    /\ UNCHANGED <<cacheVars, hashVars, keywordVars, typeVars, askVars,
                 rebuildVars, serveVars, embedVars, ingestVars,
                 improvedVars, extractVars>>

SpecChunk == InitChunker /\ [][NextChunker]_vars

InitHasher ==
    /\ InitHash
    /\ IdleCache
    /\ IdleChunk
    /\ IdleKeyword
    /\ IdleType
    /\ IdleAsk
    /\ IdleRebuild
    /\ IdleServe
    /\ IdleEmbed
    /\ IdleIngest
    /\ IdleImproved
    /\ IdleExtract

NextHasher ==
    /\ GetDocumentsHashCalls
    /\ UNCHANGED <<cacheVars, chunkVars, keywordVars, typeVars, askVars,
                 rebuildVars, serveVars, embedVars, ingestVars,
                 improvedVars, extractVars>>

SpecHash == InitHasher /\ [][NextHasher]_vars

InitKeywordSearch ==
    /\ InitKeyword
    /\ IdleCache
    /\ IdleChunk
    /\ IdleHash
    /\ IdleType
    /\ IdleAsk
    /\ IdleRebuild
    /\ IdleServe
    /\ IdleEmbed
    /\ IdleIngest
    /\ IdleImproved
    /\ IdleExtract

NextKeywordSearch ==
    \/ /\ EnhancedTextSearch
       /\ UNCHANGED <<cacheVars, chunkVars, hashVars, typeVars, askVars, rebuildVars,
                    serveVars, embedVars, ingestVars, improvedVars,
                    extractVars>>
    \/ /\ SearchLegalDocuments
       /\ UNCHANGED <<cacheVars, chunkVars, hashVars, typeVars, askVars, rebuildVars,
                    serveVars, embedVars, ingestVars, improvedVars,
                    extractVars>>

SpecKeyword == InitKeywordSearch /\ [][NextKeywordSearch]_vars

InitTyping ==
    /\ InitType
    /\ IdleCache
    /\ IdleChunk
    /\ IdleHash
    /\ IdleKeyword
    /\ IdleAsk
    /\ IdleRebuild
    /\ IdleServe
    /\ IdleEmbed
    /\ IdleIngest
    /\ IdleImproved
    /\ IdleExtract

NextTyping ==
    /\ GetDocumentType
    /\ UNCHANGED <<cacheVars, chunkVars, hashVars, keywordVars, askVars,
                 rebuildVars, serveVars, embedVars, ingestVars,
                 improvedVars, extractVars>>

SpecType == InitTyping /\ [][NextTyping]_vars

InitAsking ==
    /\ InitCache
    /\ InitAsk
    /\ IdleChunk
    /\ IdleHash
    /\ IdleKeyword
    /\ IdleType
    /\ IdleRebuild
    /\ IdleServe
    /\ IdleEmbed
    /\ IdleIngest
    /\ IdleImproved
    /\ IdleExtract

NextAsking ==
    \/ /\ InitializeSystem
       /\ UNCHANGED <<askVars, chunkVars, hashVars, keywordVars, typeVars,
                    rebuildVars, serveVars, embedVars, ingestVars,
                    improvedVars, extractVars>>
    \/ /\ AskLegalQuestion
       /\ UNCHANGED <<chunkVars, hashVars, keywordVars, typeVars, rebuildVars,
                    serveVars, embedVars, ingestVars, improvedVars,
                    extractVars>>

SpecAsk == InitAsking /\ [][NextAsking]_vars

InitRebuilding ==
    /\ InitCache
    /\ InitRebuild
    /\ IdleChunk
    /\ IdleHash
    /\ IdleKeyword
    /\ IdleType
    /\ IdleAsk
    /\ IdleServe
    /\ IdleEmbed
    /\ IdleIngest
    /\ IdleImproved
    /\ IdleExtract

NextRebuilding ==
    \/ /\ RebuildRun
       /\ UNCHANGED <<chunkVars, hashVars, keywordVars, typeVars, askVars, serveVars,
                    embedVars, ingestVars, improvedVars, extractVars>>
    \/ /\ ClearCache
       /\ UNCHANGED <<rebuildVars, chunkVars, hashVars, keywordVars, typeVars,
                    askVars, serveVars, embedVars, ingestVars,
                    improvedVars, extractVars>>

SpecRebuild == InitRebuilding /\ [][NextRebuilding]_vars

InitService ==
    /\ InitServe
    /\ IdleCache
    /\ IdleChunk
    /\ IdleHash
    /\ IdleKeyword
    /\ IdleType
    /\ IdleAsk
    /\ IdleRebuild
    /\ IdleEmbed
    /\ IdleIngest
    /\ IdleImproved
    /\ IdleExtract

NextService ==
    \/ /\ SetupRequest
       /\ UNCHANGED <<cacheVars, chunkVars, hashVars, keywordVars, typeVars, askVars,
                    rebuildVars, embedVars, ingestVars, improvedVars,
                    extractVars>>
    \/ /\ SetupRagSystem
       /\ UNCHANGED <<cacheVars, chunkVars, hashVars, keywordVars, typeVars, askVars,
                    rebuildVars, embedVars, ingestVars, improvedVars,
                    extractVars>>
    \/ /\ SetupThreadStart
       /\ UNCHANGED <<cacheVars, chunkVars, hashVars, keywordVars, typeVars, askVars,
                    rebuildVars, embedVars, ingestVars, improvedVars,
                    extractVars>>
    \/ /\ SetupBegin
       /\ UNCHANGED <<cacheVars, chunkVars, hashVars, keywordVars, typeVars, askVars,
                    rebuildVars, embedVars, ingestVars, improvedVars,
                    extractVars>>
    \/ /\ SetupCreate
       /\ UNCHANGED <<cacheVars, chunkVars, hashVars, keywordVars, typeVars, askVars,
                    rebuildVars, embedVars, ingestVars, improvedVars,
                    extractVars>>
    \/ /\ SetupInitialize
       /\ UNCHANGED <<cacheVars, chunkVars, hashVars, keywordVars, typeVars, askVars,
                    rebuildVars, embedVars, ingestVars, improvedVars,
                    extractVars>>
    \/ /\ SetupFinish
       /\ UNCHANGED <<cacheVars, chunkVars, hashVars, keywordVars, typeVars, askVars,
                    rebuildVars, embedVars, ingestVars, improvedVars,
                    extractVars>>
    \/ /\ ChatRequest
       /\ UNCHANGED <<cacheVars, chunkVars, hashVars, keywordVars, typeVars, askVars,
                    rebuildVars, embedVars, ingestVars, improvedVars,
                    extractVars>>
    \/ /\ ChatWithRag
       /\ UNCHANGED <<cacheVars, chunkVars, hashVars, keywordVars, typeVars, askVars,
                    rebuildVars, embedVars, ingestVars, improvedVars,
                    extractVars>>
    \/ /\ SearchStart
       /\ UNCHANGED <<cacheVars, chunkVars, hashVars, keywordVars, typeVars, askVars,
                    rebuildVars, embedVars, ingestVars, improvedVars,
                    extractVars>>
    \/ /\ EncodeReturn
       /\ UNCHANGED <<cacheVars, chunkVars, hashVars, keywordVars, typeVars, askVars,
                    rebuildVars, embedVars, ingestVars, improvedVars,
                    extractVars>>
    \/ /\ QueryReturn
       /\ UNCHANGED <<cacheVars, chunkVars, hashVars, keywordVars, typeVars, askVars,
                    rebuildVars, embedVars, ingestVars, improvedVars,
                    extractVars>>
    \/ /\ ChatReturn
       /\ UNCHANGED <<cacheVars, chunkVars, hashVars, keywordVars, typeVars, askVars,
                    rebuildVars, embedVars, ingestVars, improvedVars,
                    extractVars>>

SpecServe == InitService /\ [][NextService]_vars

InitEmbedding ==
    /\ InitCache
    /\ InitEmbed
    /\ IdleChunk
    /\ IdleHash
    /\ IdleKeyword
    /\ IdleType
    /\ IdleAsk
    /\ IdleRebuild
    /\ IdleServe
    /\ IdleIngest
    /\ IdleImproved
    /\ IdleExtract

NextEmbedding ==
    \/ /\ EmbedInitialize
       /\ UNCHANGED <<chunkVars, hashVars, keywordVars, typeVars, askVars,
                    rebuildVars, serveVars, ingestVars, improvedVars,
                    extractVars>>
    \/ /\ ClearCache
       /\ UNCHANGED <<embedVars, chunkVars, hashVars, keywordVars, typeVars, askVars,
                    rebuildVars, serveVars, ingestVars, improvedVars,
                    extractVars>>

SpecEmbed == InitEmbedding /\ [][NextEmbedding]_vars

InitIngestion ==
    /\ InitIngest
    /\ IdleCache
    /\ IdleChunk
    /\ IdleHash
    /\ IdleKeyword
    /\ IdleType
    /\ IdleAsk
    /\ IdleRebuild
    /\ IdleServe
    /\ IdleEmbed
    /\ IdleImproved
    /\ IdleExtract

NextIngestion ==
    /\ IngestChunks
    /\ UNCHANGED <<cacheVars, chunkVars, hashVars, keywordVars, typeVars, askVars,
                 rebuildVars, serveVars, embedVars, improvedVars,
                 extractVars>>

SpecIngest == InitIngestion /\ [][NextIngestion]_vars

InitImprovedSearch ==
    /\ InitImproved
    /\ IdleCache
    /\ IdleChunk
    /\ IdleHash
    /\ IdleKeyword
    /\ IdleType
    /\ IdleAsk
    /\ IdleRebuild
    /\ IdleServe
    /\ IdleEmbed
    /\ IdleIngest
    /\ IdleExtract

NextImprovedSearch ==
    \/ /\ SetupVectorDatabase
       /\ UNCHANGED <<cacheVars, chunkVars, hashVars, keywordVars, typeVars, askVars,
                    rebuildVars, serveVars, embedVars, ingestVars,
                    extractVars>>
    \/ /\ ImprovedSearchDocuments
       /\ UNCHANGED <<cacheVars, chunkVars, hashVars, keywordVars, typeVars, askVars,
                    rebuildVars, serveVars, embedVars, ingestVars,
                    extractVars>>

SpecImproved == InitImprovedSearch /\ [][NextImprovedSearch]_vars

InitExtraction ==
    /\ InitExtract
    /\ IdleCache
    /\ IdleChunk
    /\ IdleHash
    /\ IdleKeyword
    /\ IdleType
    /\ IdleAsk
    /\ IdleRebuild
    /\ IdleServe
    /\ IdleEmbed
    /\ IdleIngest
    /\ IdleImproved

NextExtraction ==
    /\ ExtractTextFromPdfs
    /\ UNCHANGED <<cacheVars, chunkVars, hashVars, keywordVars, typeVars, askVars,
                 rebuildVars, serveVars, embedVars, ingestVars, improvedVars>>

SpecExtract == InitExtraction /\ [][NextExtraction]_vars

\* The service with its threads scheduled fairly: a setup thread that can
\* take its next step takes it, and initialize_system returns or raises.
SpecServeFair ==
    /\ InitService
    /\ [][NextService]_vars
    /\ WF_serveVars(SetupBegin)
    /\ WF_serveVars(SetupCreate)
    /\ WF_serveVars(SetupInitialize)
    /\ WF_serveVars(SetupFinish)

(***************************************************************************)
(* Properties of the chunker (checked under SpecChunk).                    *)
(***************************************************************************)
\* ceil(a / b) for b > 0 and any integer a.
CeilDiv(a, b) == -((-a) \div b)

WordCount == Len(split(text))

ChunkWords(i) == split(chunked.chunks[i])

NumChunks == Len(chunked.chunks)

Returned == chunked.kind = "returned"

LastChunkBounded ==
    NumChunks > 0 => Len(ChunkWords(NumChunks)) <= chunk_size

\* C5 (as stated): with 0 <= overlap < chunk_size, a text of W words gives
\* exactly ceil((W - overlap) / (chunk_size - overlap)) chunks, and the final
\* chunk has at most chunk_size words.
C5_AsStated ==
    (Returned /\ overlap < chunk_size) =>
        /\ NumChunks = CeilDiv(WordCount - overlap, chunk_size - overlap)
        /\ LastChunkBounded

\* C5 (amended): the count is ceil((W - overlap) / (chunk_size - overlap))
\* when W > overlap, one chunk when 1 <= W <= overlap, none when W = 0; the
\* final chunk has at most chunk_size words.
C5_ChunkCount ==
    (Returned /\ overlap < chunk_size) =>
        /\ WordCount > overlap =>
              NumChunks = CeilDiv(WordCount - overlap, chunk_size - overlap)
        /\ (WordCount >= 1 /\ WordCount <= overlap) => NumChunks = 1
        /\ WordCount = 0 => NumChunks = 0
        /\ LastChunkBounded

\* C5 witness: a call with overlap >= 1 that returned several chunks, the
\* last of them shorter than chunk_size.
C5_Witness ==
    /\ Returned /\ overlap >= 1 /\ overlap < chunk_size
    /\ NumChunks >= 2
    /\ Len(ChunkWords(NumChunks)) < chunk_size

\* C6 (as stated): a call of chunk_text with overlap >= chunk_size ends in
\* an error, whatever the text; it never returns a chunk list.  Any raised
\* exception is counted as the error outcome.
C6_ConfigurationError ==
    (chunked # NotCalled /\ overlap >= chunk_size) => chunked.kind # "returned"

\* C7: with overlap < chunk_size every chunk has at most chunk_size words,
\* the last `overlap` words of each chunk are the first `overlap` words of
\* the next, and the first chunk followed by every later chunk without its
\* first `overlap` words is the original word sequence.
RECURSIVE Reconstruct(_, _)
Reconstruct(cs, ov) ==
    IF cs = <<>> THEN <<>>
    ELSE LET w == split(Head(cs))
         IN  Slice(w, ov, Len(w)) \o Reconstruct(Tail(cs), ov)

C7_WindowInvariant ==
    (Returned /\ overlap < chunk_size) =>
        /\ \A i \in 1..NumChunks : Len(ChunkWords(i)) <= chunk_size
        /\ \A i \in 1..(NumChunks - 1) :
              LET a == ChunkWords(i)
                  b == ChunkWords(i + 1)
              IN  /\ Len(a) >= overlap
                  /\ Len(b) >= overlap
                  /\ Slice(a, Len(a) - overlap, Len(a)) = Slice(b, 0, overlap)
        /\ IF NumChunks = 0 THEN split(text) = <<>>
           ELSE ChunkWords(1) \o Reconstruct(Tail(chunked.chunks), overlap)
                   = split(text)

\* C7 witness: three chunks with a real overlap, over words that differ.
C7_Witness ==
    /\ Returned /\ overlap >= 1 /\ overlap < chunk_size
    /\ NumChunks >= 3
    /\ \E i, j \in 1..WordCount : split(text)[i] # split(text)[j]

(***************************************************************************)
(* Properties of get_documents_hash (checked under SpecHash).              *)
(***************************************************************************)
\* C8: the fingerprint depends on the set of (name, size, mtime) alone: two
\* computations over the same directory agree whatever the listing order,
\* and directories that differ by an added, removed or changed document
\* get different fingerprints.
C8_Fingerprint ==
    hashes # <<>> => ((first_dir = second_dir) <=> (hashes[1] = hashes[2]))

\* C8 witness: one directory of two documents, listed in two orders.
C8_Witness ==
    /\ hashes # <<>>
    /\ first_dir = second_dir
    /\ Cardinality(Present(first_dir)) = 2
    /\ first_glob # second_glob
    /\ hashes[1] = hashes[2]

(***************************************************************************)
(* Properties of the cache (checked under Spec).                           *)
(***************************************************************************)
Initialized == lastInit.path # "none"

\* C1 (as stated): after a successful full rebuild, with the documents
\* unchanged and no cache artifact deleted, the next initialize_system call
\* takes the cached path: no extract_text_from_pdfs call, no encode call.
C1_CachedAfterRebuild ==
    lastInit.hist_before = "built" =>
        /\ lastInit.path = "cached"
        /\ lastInit.extract_calls = 0
        /\ lastInit.encode_calls = 0

\* The fingerprint of the directory d.
FingerprintOf(d) == DocumentsHash(CHOOSE l \in Listings(Present(d)) : TRUE, d)

\* C2 (as stated): whenever a metadata record is persisted, its fingerprint
\* is that of the document set from which the persisted texts, the chunk
\* store and the vector index were produced.
C2_FingerprintMatchesArtifacts ==
    metadata_cache.exists =>
        /\ texts_cache.exists =>
              FingerprintOf(texts_cache.src) = metadata_cache.documents_hash
        /\ chunks_cache.exists =>
              FingerprintOf(chunks_cache.src) = metadata_cache.documents_hash
        /\ (vector_db_dir.exists /\ vector_db_dir.collection) =>
              FingerprintOf(vector_db_dir.src) = metadata_cache.documents_hash

\* C3: clear_cache leaves no persisted artifact, and the first
\* initialize_system call after it takes the rebuild path, whatever the
\* documents are.
C3_ClearCache ==
    /\ lastOp = "clear_cache" =>
          /\ ~texts_cache.exists
          /\ ~chunks_cache.exists
          /\ ~embeddings_cache
          /\ ~metadata_cache.exists
          /\ ~vector_db_dir.exists
    /\ lastInit.hist_before = "cleared" =>
          (~lastInit.valid /\ lastInit.path = "rebuild")

\* C3 witness: a build, clear_cache, and a build that ingests again.
C3_Witness ==
    /\ initCalls = 2
    /\ lastInit.hist_before = "cleared"
    /\ lastInit.ok
    /\ lastInit.encode_calls >= 1

\* C4 (as stated): is_cache_valid answers VALID exactly when the metadata
\* record exists, its fingerprint equals the current one, and the texts, the
\* chunk store and the vector index storage are all present.
C4_ValidityDecision ==
    Initialized =>
        (lastInit.valid <=>
            /\ lastInit.pre.metadata
            /\ lastInit.pre.hash_match
            /\ lastInit.pre.texts
            /\ lastInit.pre.chunks
            /\ lastInit.pre.vector)

\* C9: search_documents never raises; with the index absent or empty, or
\* with the query or its embedding failing, it returns ([], []).
C9_SearchNeverRaises ==
    /\ ~searchResult.raised
    /\ (searchResult.index \in {"absent", "empty"} \/ searchResult.failed) =>
          (searchResult.docs = <<>> /\ searchResult.metadatas = <<>>)

\* C9 witness: a search over a filled index whose query fails.
C9_Witness ==
    /\ lastOp = "search_documents"
    /\ searchResult.index = "present"
    /\ searchResult.failed
    /\ searchResult.docs = <<>>

\* Some word of the query occurs in some retained chunk.
QueryMatchesChunk(query) ==
    \E i \in DOMAIN chunks_with_context, w \in DOMAIN split(lower(query)) :
        Contains(lower(ChunkContent(chunks_with_context[i].chunk)),
                 split(lower(query))[w])

\* C10 (as stated): a failure to set up the vector store does not fail
\* initialize_system, and afterwards a question whose words occur in a
\* retained chunk gets a non-empty result through the keyword fallback.
C10_KeywordFallback ==
    /\ lastInit.failed_at = "vector_db" => lastInit.ok
    /\ (/\ lastOp = "search_documents"
        /\ ~vector_db.attached
        /\ QueryMatchesChunk(searchResult.query)) => searchResult.docs # <<>>

(***************************************************************************)
(* Properties of the keyword search (checked under SpecKeyword).           *)
(***************************************************************************)
HasPhrase(chunk) == Contains(lower(chunk.text), Phrase_penalty)

\* The place of chunk i in the sorted list scored_chunks, 0 when it is not
\* in the list.
RankOf(i) ==
    IF \E r \in DOMAIN kw_result.scored_chunks : kw_result.scored_chunks[r].index = i
    THEN CHOOSE r \in DOMAIN kw_result.scored_chunks : kw_result.scored_chunks[r].index = i
    ELSE 0

MatchesWordsOnly(chunk) ==
    /\ ~HasPhrase(chunk)
    /\ ScoreParts(kw_query, chunk).words > 0

\* C11: for the question "What is the penalty for corruption?", every chunk
\* that contains "penalty for corruption" has the +10 exact-phrase bonus in
\* its score and is ranked above every chunk that matches only individual
\* question words.
C11_ExactPhraseBonus ==
    (kw_result.op = "enhanced_text_search" /\ kw_query = Question_penalty) =>
        \A i \in DOMAIN kw_chunks :
            HasPhrase(kw_chunks[i]) =>
                /\ ScoreParts(kw_query, kw_chunks[i]).phrase = PhraseBonus
                /\ \A j \in DOMAIN kw_chunks :
                       MatchesWordsOnly(kw_chunks[j]) =>
                           /\ RankOf(i) > 0
                           /\ RankOf(j) = 0 \/ RankOf(i) < RankOf(j)

KeywordSearched == kw_result.path = "keyword"

\* The score the function that ran gives chunk i.
ScoreUsed(i) ==
    IF kw_result.op = "enhanced_text_search" THEN Score(kw_query, kw_chunks[i])
    ELSE word_matches(split(lower(kw_query)), lower(kw_chunks[i].text))

Positive == {i \in DOMAIN kw_chunks : ScoreUsed(i) > 0}

\* scored is the list of the chunks of score > 0, by descending score, equal
\* scores in insertion order.
IsStableRanking(scored) ==
    /\ Len(scored) = Cardinality(Positive)
    /\ {scored[p].index : p \in DOMAIN scored} = Positive
    /\ \A p \in DOMAIN scored : scored[p].score = ScoreUsed(scored[p].index)
    /\ \A p, q \in DOMAIN scored :
           p < q => \/ scored[p].score > scored[q].score
                    \/ /\ scored[p].score = scored[q].score
                       /\ scored[p].index < scored[q].index

\* C12: the result of a keyword search with limit k is exactly the first k
\* elements of the list of the chunks of score > 0, ordered by descending
\* score with equal scores in insertion order; so it has at most k elements,
\* holds no chunk of score 0 and its scores never increase.
C12_TopKStable ==
    KeywordSearched =>
        /\ IsStableRanking(kw_result.scored_chunks)
        /\ kw_result.top_results = Take(kw_result.scored_chunks, kw_k)
        /\ Len(kw_result.docs) = Len(kw_result.top_results)
        /\ Len(kw_result.metadata) = Len(kw_result.top_results)
        /\ \A p \in DOMAIN kw_result.top_results :
               /\ kw_result.docs[p] = kw_chunks[kw_result.top_results[p].index].text
               /\ kw_result.metadata[p].document
                      = kw_chunks[kw_result.top_results[p].index].document
               /\ ScoreUsed(kw_result.top_results[p].index) > 0
               /\ p > 1 => kw_result.top_results[p - 1].score
                              >= kw_result.top_results[p].score
        /\ Len(kw_result.docs) <= kw_k

\* C12 witness: a keyword search that cut the list at k and left out a chunk
\* of score 0, with two different chunks of equal score at the head of the
\* sorted list.
C12_Witness ==
    /\ KeywordSearched
    /\ Len(kw_result.scored_chunks) > kw_k
    /\ Len(kw_result.docs) = kw_k
    /\ Positive # DOMAIN kw_chunks
    /\ kw_result.scored_chunks[1].score = kw_result.scored_chunks[2].score
    /\ kw_chunks[kw_result.scored_chunks[1].index].text
           # kw_chunks[kw_result.scored_chunks[2].index].text

\* The different words of the question that occur in the chunk.
DistinctWordsPresent(query, chunk) ==
    {w \in {split(lower(query))[n] : n \in DOMAIN split(lower(query))} :
        Contains(lower(chunk.text), w)}

\* C13: the score of a chunk is 10 if the lowercase question is a substring
\* of the lowercase chunk, plus 2 for every DISTINCT question word present
\* in the chunk (a repeated word counts once), plus a boost of 3 to 5 when
\* the question and the document name share a topic, else 0.
C13_ScoreFormula ==
    kw_result.op = "enhanced_text_search" =>
        \A p \in DOMAIN kw_result.scored_chunks :
            LET chunk == kw_chunks[kw_result.scored_chunks[p].index]
                boost == ScoreParts(kw_query, chunk).boost
            IN  /\ boost = 0 \/ boost \in RightsBoost..TopicBoost
                /\ kw_result.scored_chunks[p].score
                     = (IF Contains(lower(chunk.text), lower(kw_query))
                        THEN PhraseBonus ELSE 0)
                       + WordWeight * Cardinality(DistinctWordsPresent(kw_query, chunk))
                       + boost

(***************************************************************************)
(* Properties of ask_legal_question (checked under SpecAsk).               *)
(***************************************************************************)
Asked == answered.called

\* C14: when retrieval finds no chunk, ask_legal_question returns the fixed
\* "no relevant information" answer with empty sources and confidence 0, and
\* attempts no answer synthesis, generative or extractive.
C14_NothingFound ==
    (Asked /\ answered.docs = <<>>) =>
        /\ ~answered.raised
        /\ answered.result.answer = NoInfoAnswer
        /\ answered.result.sources = <<>>
        /\ answered.by = "none"
        /\ answered.calls = 0
        /\ "confidence" \in DOMAIN answered.result
        /\ answered.result.confidence = 0

\* C15: for every question and every system state, ask_legal_question
\* returns a record with the four fields question, answer, sources and
\* confidence and raises nothing; when retrieval fails the answer is the "no
\* relevant information" answer with confidence 0.
C15_WellFormedResult ==
    Asked =>
        /\ ~answered.raised
        /\ DOMAIN answered.result = {"question", "answer", "sources", "confidence"}
        /\ (answered.index = "absent" \/ answered.failed) =>
               /\ answered.result.answer = NoInfoAnswer
               /\ answered.result.confidence = 0

GeminiFailed == answered.outcome \in {"raises", "no_response", "no_text"}

\* C16: with a generative service configured, when the external call raises
\* or returns no or empty text, the answer is exactly the extractive answer
\* of generate_fallback_response for the same question, chunks and metadata,
\* and no exception reaches the caller.
C16_GenerativeFallback ==
    (Asked /\ gemini_client /\ answered.docs # <<>> /\ GeminiFailed) =>
        /\ ~answered.raised
        /\ answered.by = "extractive"
        /\ answered.result.answer
             = generate_fallback_response(answered.result.question, answered.docs,
                                          answered.metadatas, 1)

\* C16 witness: the external call raised and the answer quotes a sentence of
\* a retrieved chunk.
C16_Witness ==
    /\ Asked /\ gemini_client /\ answered.outcome = "raises"
    /\ answered.by = "extractive"
    /\ Take(answered.result.answer, Len(Text_AccordingTo)) = Text_AccordingTo

(***************************************************************************)
(* Properties of get_document_type (checked under SpecType).               *)
(***************************************************************************)
\* The keywords a class looks for in a document name.
Keywords(class) ==
    {Word_constitution, Word_penal, Word_criminal, Word_corruption, Word_land,
     Word_tax, Word_environment}
    \cup (IF class = "ImprovedBhutanRAG" THEN {Word_civil} ELSE {})

\* C17: get_document_type is a function of the document name alone (the
\* same name gets the same tag in every call), "Penal_Code_2004" gets
\* "criminal_law", a name containing "constitution" gets "constitution" and
\* a name with no keyword gets "general_law".
C17_DocumentType ==
    /\ \A i, j \in DOMAIN type_calls :
           (type_calls[i].class = type_calls[j].class
            /\ type_calls[i].doc_name = type_calls[j].doc_name)
               => type_calls[i].tag = type_calls[j].tag
    /\ \A i \in DOMAIN type_calls :
           LET call == type_calls[i]
               name == lower(Chars(call.doc_name))
           IN  /\ call.doc_name = "Penal_Code_2004" => call.tag = "criminal_law"
               /\ Contains(name, Word_constitution) => call.tag = "constitution"
               /\ (\A k \in Keywords(call.class) : ~Contains(name, k))
                      => call.tag = "general_law"

\* C17 witness: "Penal_Code_2004" classified twice by the same class, then
\* a name with no keyword classified.
C17_Witness ==
    /\ Len(type_calls) = 3
    /\ type_calls[1].class = type_calls[2].class
    /\ type_calls[1].doc_name = "Penal_Code_2004"
    /\ type_calls[2].doc_name = "Penal_Code_2004"
    /\ type_calls[2].tag = "criminal_law"
    /\ type_calls[3].doc_name = "Marriage_Act_1980"
    /\ type_calls[3].tag = "general_law"

(***************************************************************************)
(* Properties of the rebuild (checked under SpecRebuild).                  *)
(***************************************************************************)
\* A successful run that follows clear_cache and an earlier successful run.
RebuiltAfterClear ==
    /\ first_run.done
    /\ lastOp = "initialize_system"
    /\ lastInit.ok
    /\ lastInit.hist_before = "cleared"

SameChunkCount ==
    /\ metadata_cache.chunks_count = first_run.chunks_count
    /\ Len(chunks_cache.data) = first_run.store

InEncode == {t \in Threads : pc[t] = "encode"}

\* C19: calls into embedding-model inference are serialized: under every
\* interleaving of concurrent chat requests at most one request at a time is
\* inside embedding_model.encode.
C19_EncodeSerialized == Cardinality(InEncode) <= 1

(***************************************************************************)
(* Properties of the embedding setup (checked under SpecEmbed).            *)
(***************************************************************************)
\* C20: when the construction of the primary embedding implementation fails,
\* exactly one construction of the fallback is attempted and initialization
\* goes on with the one that succeeded; initialize_system fails for an
\* embedding reason only when the primary and the fallback both failed
\* (a failed import of sentence_transformers, after which nothing can be
\* constructed, counts as both failing).
C20_EmbeddingFallback ==
    (embed.called /\ lastOp = "initialize_system") =>
        /\ (embed.ok /\ Len(embed.attempts) = 2) => embedding_model = embed.attempts[2]
        /\ (embed.ok /\ Len(embed.attempts) = 1) => embedding_model = embed.attempts[1]
        /\ embed.ok => lastInit.failed_at # "embedding"
        /\ lastInit.failed_at = "embedding" => Len(embed.attempts) # 1

(***************************************************************************)
(* Properties of the cache machine, continued                              *)
(***************************************************************************)
\* C21: whenever initialize_system judges the cache valid, that call takes
\* the cached path and makes no extraction, no chunking and no encode call.
C21_ValidCacheSkipsWork ==
    lastOp = "initialize_system" /\ lastInit.valid =>
        /\ lastInit.path = "cached"
        /\ lastInit.extract_calls = 0
        /\ lastInit.encode_calls = 0

(***************************************************************************)
(* Properties of the ingestion loop                                        *)
(***************************************************************************)
Ingested == ing_collection.state = "created" /\ ing_collection.ok

\* C22: when n chunks are ingested into a new collection, for any batch size
\* the ids are exactly chunk_0 .. chunk_{n-1}, each used once, and the entry
\* with id chunk_m holds the m-th chunk and the m-th metadata record.
C22_IdsFollowIngestionOrder ==
    Ingested =>
        LET es == ing_collection.entries
        IN  /\ Len(es) = Len(ing_chunks)
            /\ {es[e].id : e \in DOMAIN es} = 0..(Len(ing_chunks) - 1)
            /\ \A e, f \in DOMAIN es : es[e].id = es[f].id => e = f
            /\ \A e \in DOMAIN es :
                  /\ es[e].document = ing_chunks[es[e].id + 1].chunk
                  /\ es[e].metadata = ing_chunks[es[e].id + 1].meta

\* Several batches were ingested, the last one shorter than the others.
C22_Witness ==
    /\ Ingested
    /\ ing_collection.calls >= 2
    /\ Len(ing_chunks) % ing_batch_size # 0

(***************************************************************************)
(* Properties of ImprovedBhutanRAG.search_documents                        *)
(***************************************************************************)
ImprovedSearched == imp_result.op = "search_documents"

IndexNonEmpty == imp_vector_db.present /\ imp_vector_db.entries # <<>>

\* C23: search_documents uses the vector query only when the vector index
\* is present and non-empty; in every other case it returns the result of
\* the keyword fallback over the retained chunks.
C23_VectorOnlyWhenNonEmpty ==
    ImprovedSearched =>
        /\ imp_result.encode_called => IndexNonEmpty
        /\ imp_result.result.path = "vector" => IndexNonEmpty
        /\ ~IndexNonEmpty =>
              imp_result.result = enhanced_text_search(imp_chunks, imp_query, DefaultLimit)

(***************************************************************************)
(* Properties of extract_text_from_pdfs                                    *)
(***************************************************************************)
Extracted == ext_call.state = "returned"

\* The pages of document n that were read without a failure.
PagesRead(n) ==
    {p \in 1..NumPages(ext_docs[n]) : p \notin ext_call.fail[n]}

FailsEntirely(n) ==
    0 \in ext_call.fail[n] \/ PagesRead(n) = {}

EntriesOf(n) ==
    {e \in DOMAIN ext_call.legal_texts : ext_call.legal_texts[e].document = n}

\* C24 as stated: a document whose extraction fails entirely has the empty
\* string as its text in the result.
C24_AsStated ==
    Extracted =>
        \A n \in Present(ext_docs) :
            FailsEntirely(n) =>
                \E e \in EntriesOf(n) :
                    TextOf(n, ext_call.legal_texts[e].pages) = <<>>

\* C24: the extraction returns for every directory, listing and set of
\* failures.  A page that fails contributes nothing and the other pages of
\* its document are accumulated in page order; a document that fails
\* entirely has no entry in the result; every other document of the listing
\* has its entry, in listing order.
C24_NeverAbortsBatch ==
    Extracted =>
        /\ \A n \in Present(ext_docs) :
              /\ FailsEntirely(n) => EntriesOf(n) = {}
              /\ ~FailsEntirely(n) /\ strip(TextOf(n, PagesRead(n))) # <<>> =>
                    /\ Cardinality(EntriesOf(n)) = 1
                    /\ \A e \in EntriesOf(n) :
                          ext_call.legal_texts[e].pages = PagesRead(n)
        /\ \A e, f \in DOMAIN ext_call.legal_texts :
              e < f =>
                  \E i, j \in DOMAIN ext_call.listing :
                      /\ i < j
                      /\ ext_call.listing[i] = ext_call.legal_texts[e].document
                      /\ ext_call.listing[j] = ext_call.legal_texts[f].document

\* The first file of the listing cannot be read, a page of the second one
\* fails, and the second document is returned with its other page.
C24_Witness ==
    /\ Extracted
    /\ Len(ext_call.listing) = 2
    /\ 0 \in ext_call.fail[ext_call.listing[1]]
    /\ \E p \in 1..MaxPages :
          /\ p \in ext_call.fail[ext_call.listing[2]]
          /\ p <= NumPages(ext_docs[ext_call.listing[2]])
    /\ Len(ext_call.legal_texts) = 1
    /\ ext_call.legal_texts[1].document = ext_call.listing[2]
    /\ ext_call.legal_texts[1].pages # {}

\* C25: after every initialize_system call that returns success, the vector
\* index holds exactly one entry per retained chunk of the current chunk
\* store, and entry chunk_m holds chunk m.
C25_OneEntryPerChunk ==
    lastOp = "initialize_system" /\ lastInit.ok =>
        /\ Len(vector_db.entries) = Len(chunks_with_context)
        /\ \A m \in DOMAIN vector_db.entries :
              /\ vector_db.entries[m].id = m - 1
              /\ vector_db.entries[m].document = chunks_with_context[m].chunk

\* C26: an initialize_system call that returns failure leaves the persisted
\* metadata record, present or absent, exactly as it was before the call;
\* the record is written only by a call that returns success.
C26_FailureKeepsMetadata ==
    [][lastOp' = "initialize_system" =>
          /\ ~lastInit'.ok => metadata_cache' = metadata_cache
          /\ metadata_cache' # metadata_cache =>
                lastInit'.ok /\ lastInit'.failed_at = "none"]_vars

\* A rebuild over changed documents has failed at the vector database, after
\* extraction, chunking and model setup, with an older record on disk.
C26_Witness ==
    /\ lastOp = "initialize_system"
    /\ ~lastInit.ok
    /\ lastInit.path = "rebuild"
    /\ lastInit.failed_at = "vector_db"
    /\ lastInit.extract_calls = 1
    /\ lastInit.pre.metadata
    /\ ~lastInit.pre.hash_match
    /\ metadata_cache.exists

(***************************************************************************)
(* Properties of ask_legal_question, continued                             *)
(***************************************************************************)
\* C27: in every result of ask_legal_question, ai_powered is true only if
\* the answer was produced by the generative service; with the extractive
\* fallback or the fixed no-information answer it is false.
C27_AiPoweredOnlyIfGenerative ==
    answered.called /\ ~answered.raised =>
        /\ answered.result.ai_powered => answered.by = "generative"
        /\ answered.by \in {"extractive", "none"} => ~answered.result.ai_powered

(***************************************************************************)
(* Properties of the service: setup                                        *)
(***************************************************************************)
\* The runs of setup_rag_system_background whose thread has been started and
\* has not ended.
Running == {r \in SetupRuns : setup_pc[r] \notin {"unstarted", "done"}}

\* C28: under any interleaving of POST /api/rag/setup requests at most one
\* setup_rag_system_background thread is running at a time, no setup thread
\* is started once is_setup is true, and a request that is handled while a
\* setup is in progress or done is rejected with HTTP 400.
C28_SingleSetupThread ==
    /\ [](Cardinality(Running) <= 1)
    /\ [][\A t \in Threads :
             /\ pc[t] = "thread_start" /\ pc'[t] = "idle" =>
                   ~is_setup /\ Running = {}
             /\ pc[t] = "setup_rag_system" /\ (is_setup \/ Running # {}) =>
                   pc'[t] \in {"setup_rag_system", "idle"}]_vars

\* C29: whenever chat_with_rag passes its guards and calls
\* rag_system.ask_legal_question, the global rag_system is an object whose
\* initialize_system has returned success.
C29_ChatOnInitializedSystem ==
    [][\A t \in Threads :
          pc[t] = "chat_with_rag" /\ pc'[t] = "search_documents" =>
              /\ rag_system # 0
              /\ instances[rag_system] = "initialized"]_vars

\* C30: every started run of setup_rag_system_background ends by setting
\* is_setting_up to false, and at that point exactly one of is_setup = true
\* and error != null holds, for the outcome of that run: is_setup after a
\* success, the error after no documents, a failed or a raising
\* initialization; a failed run leaves is_setup false.
C30_SetupProgressRecord ==
    /\ \A r \in SetupRuns : (setup_pc[r] = "begin") ~> (setup_pc[r] = "done")
    /\ [][\A r \in SetupRuns :
             setup_pc[r] = "finally" /\ setup_pc'[r] = "done" =>
                 /\ ~is_setting_up'
                 /\ is_setup' # (error' # "None")
                 /\ is_setup' = (outcome[r] = "success")]_vars

====
